---- MODULE Spec2Model ----
(***************************************************************************)
(* Model of the kingpin pipeline of certis_agroute_app:                    *)
(*   scripts/convert_to_geojson_kingpin.py  (normalizers, facility and     *)
(*   coordinate indexes, the row loop of main, the final feature build).   *)
(*                                                                         *)
(* Text is modelled as a sequence of one-character strings, so that the    *)
(* normalizers are computed character by character the way the regular     *)
(* expressions and str methods of the source compute them.                 *)
(***************************************************************************)
EXTENDS Integers, Sequences, FiniteSets, TLC

VARIABLES
    pc,                 \* "start", "loop", "done" (returned 0), "failed" (returned 1)
    inputs_present,     \* the three required input files exist
    geocode_no_match,   \* --geocode-no-match
    has_token,          \* resolve_mapbox_token finds a token
    area_file,          \* the rows of area_code_centers.csv (none: no file)
    disk_cache,         \* the content of the cache file when the run starts
    n_input_total,      \* len(raw_rows)
    processed,          \* rows of raw_rows the loop has consumed
    area_centers,
    cache,
    st,                 \* the n_* counters, cache_hits, cache_writes, printed_failures
    fail_status_counts,
    enriched,
    unmatched,
    out,                \* what the run wrote: the CSVs, the features, the stats, the cache file
    geoLog,             \* the passes through the geocode block, in row order
    last,               \* the RowResult of the row processed last
    fn_call,            \* a function applied on its own: its name and argument
    fn_ret,             \* what that application returned
    kingpin1_run,       \* the run of geocode_kingpin1.py: rows, position, features, anomalies
    retailers_run,      \* the run of geocode_retailers.py: rows, position, cache, counters
    combine_run,        \* the run of combine_channel_partners.py: sheets, frames, output
    kingpin_run,        \* the run of geocode_kingpin.py: rows, position, cache, counters
    geojson_run         \* the run of convert_to_geojson.py: the cache table, the calls


(***************************************************************************)
(* Characters and the str / re primitives the source uses                  *)
(***************************************************************************)
UpperAlpha ==
    <<"A","B","C","D","E","F","G","H","I","J","K","L","M",
      "N","O","P","Q","R","S","T","U","V","W","X","Y","Z">>

LowerAlpha ==
    <<"a","b","c","d","e","f","g","h","i","j","k","l","m",
      "n","o","p","q","r","s","t","u","v","w","x","y","z">>

\* The alphabet of the model: every character up to U+024F, every whitespace
\* character and every digit of the Basic Multilingual Plane, U+FEFF, and
\* what str.lower and str.upper make of these.  A character up to U+00FF is
\* written as itself, a character beyond as its name "U+XXXX".

\* the characters str.isspace, str.strip and \s of the re module take as
\* whitespace
SpaceChars ==
    { "\t", "\n", "", "\f", "\r", "", "", "", "", " ", "", " ", "U+1680", "U+2000", "U+2001", "U+2002",
      "U+2003", "U+2004", "U+2005", "U+2006", "U+2007", "U+2008", "U+2009", "U+200A", "U+2028", "U+2029", "U+202F", "U+205F", "U+3000" }

\* the characters \d of the re module matches (str.isdecimal)
DecimalChars ==
    { "0", "1", "2", "3", "4", "5", "6", "7", "8", "9",
      "U+0660", "U+0661", "U+0662", "U+0663", "U+0664", "U+0665", "U+0666", "U+0667", "U+0668", "U+0669",
      "U+06F0", "U+06F1", "U+06F2", "U+06F3", "U+06F4", "U+06F5", "U+06F6", "U+06F7", "U+06F8", "U+06F9",
      "U+07C0", "U+07C1", "U+07C2", "U+07C3", "U+07C4", "U+07C5", "U+07C6", "U+07C7", "U+07C8", "U+07C9",
      "U+0966", "U+0967", "U+0968", "U+0969", "U+096A", "U+096B", "U+096C", "U+096D", "U+096E", "U+096F",
      "U+09E6", "U+09E7", "U+09E8", "U+09E9", "U+09EA", "U+09EB", "U+09EC", "U+09ED", "U+09EE", "U+09EF",
      "U+0A66", "U+0A67", "U+0A68", "U+0A69", "U+0A6A", "U+0A6B", "U+0A6C", "U+0A6D", "U+0A6E", "U+0A6F",
      "U+0AE6", "U+0AE7", "U+0AE8", "U+0AE9", "U+0AEA", "U+0AEB", "U+0AEC", "U+0AED", "U+0AEE", "U+0AEF",
      "U+0B66", "U+0B67", "U+0B68", "U+0B69", "U+0B6A", "U+0B6B", "U+0B6C", "U+0B6D", "U+0B6E", "U+0B6F",
      "U+0BE6", "U+0BE7", "U+0BE8", "U+0BE9", "U+0BEA", "U+0BEB", "U+0BEC", "U+0BED", "U+0BEE", "U+0BEF",
      "U+0C66", "U+0C67", "U+0C68", "U+0C69", "U+0C6A", "U+0C6B", "U+0C6C", "U+0C6D", "U+0C6E", "U+0C6F",
      "U+0CE6", "U+0CE7", "U+0CE8", "U+0CE9", "U+0CEA", "U+0CEB", "U+0CEC", "U+0CED", "U+0CEE", "U+0CEF",
      "U+0D66", "U+0D67", "U+0D68", "U+0D69", "U+0D6A", "U+0D6B", "U+0D6C", "U+0D6D", "U+0D6E", "U+0D6F",
      "U+0DE6", "U+0DE7", "U+0DE8", "U+0DE9", "U+0DEA", "U+0DEB", "U+0DEC", "U+0DED", "U+0DEE", "U+0DEF",
      "U+0E50", "U+0E51", "U+0E52", "U+0E53", "U+0E54", "U+0E55", "U+0E56", "U+0E57", "U+0E58", "U+0E59",
      "U+0ED0", "U+0ED1", "U+0ED2", "U+0ED3", "U+0ED4", "U+0ED5", "U+0ED6", "U+0ED7", "U+0ED8", "U+0ED9",
      "U+0F20", "U+0F21", "U+0F22", "U+0F23", "U+0F24", "U+0F25", "U+0F26", "U+0F27", "U+0F28", "U+0F29",
      "U+1040", "U+1041", "U+1042", "U+1043", "U+1044", "U+1045", "U+1046", "U+1047", "U+1048", "U+1049",
      "U+1090", "U+1091", "U+1092", "U+1093", "U+1094", "U+1095", "U+1096", "U+1097", "U+1098", "U+1099",
      "U+17E0", "U+17E1", "U+17E2", "U+17E3", "U+17E4", "U+17E5", "U+17E6", "U+17E7", "U+17E8", "U+17E9",
      "U+1810", "U+1811", "U+1812", "U+1813", "U+1814", "U+1815", "U+1816", "U+1817", "U+1818", "U+1819",
      "U+1946", "U+1947", "U+1948", "U+1949", "U+194A", "U+194B", "U+194C", "U+194D", "U+194E", "U+194F",
      "U+19D0", "U+19D1", "U+19D2", "U+19D3", "U+19D4", "U+19D5", "U+19D6", "U+19D7", "U+19D8", "U+19D9",
      "U+1A80", "U+1A81", "U+1A82", "U+1A83", "U+1A84", "U+1A85", "U+1A86", "U+1A87", "U+1A88", "U+1A89",
      "U+1A90", "U+1A91", "U+1A92", "U+1A93", "U+1A94", "U+1A95", "U+1A96", "U+1A97", "U+1A98", "U+1A99",
      "U+1B50", "U+1B51", "U+1B52", "U+1B53", "U+1B54", "U+1B55", "U+1B56", "U+1B57", "U+1B58", "U+1B59",
      "U+1BB0", "U+1BB1", "U+1BB2", "U+1BB3", "U+1BB4", "U+1BB5", "U+1BB6", "U+1BB7", "U+1BB8", "U+1BB9",
      "U+1C40", "U+1C41", "U+1C42", "U+1C43", "U+1C44", "U+1C45", "U+1C46", "U+1C47", "U+1C48", "U+1C49",
      "U+1C50", "U+1C51", "U+1C52", "U+1C53", "U+1C54", "U+1C55", "U+1C56", "U+1C57", "U+1C58", "U+1C59",
      "U+A620", "U+A621", "U+A622", "U+A623", "U+A624", "U+A625", "U+A626", "U+A627", "U+A628", "U+A629",
      "U+A8D0", "U+A8D1", "U+A8D2", "U+A8D3", "U+A8D4", "U+A8D5", "U+A8D6", "U+A8D7", "U+A8D8", "U+A8D9",
      "U+A900", "U+A901", "U+A902", "U+A903", "U+A904", "U+A905", "U+A906", "U+A907", "U+A908", "U+A909",
      "U+A9D0", "U+A9D1", "U+A9D2", "U+A9D3", "U+A9D4", "U+A9D5", "U+A9D6", "U+A9D7", "U+A9D8", "U+A9D9",
      "U+A9F0", "U+A9F1", "U+A9F2", "U+A9F3", "U+A9F4", "U+A9F5", "U+A9F6", "U+A9F7", "U+A9F8", "U+A9F9",
      "U+AA50", "U+AA51", "U+AA52", "U+AA53", "U+AA54", "U+AA55", "U+AA56", "U+AA57", "U+AA58", "U+AA59",
      "U+ABF0", "U+ABF1", "U+ABF2", "U+ABF3", "U+ABF4", "U+ABF5", "U+ABF6", "U+ABF7", "U+ABF8", "U+ABF9",
      "U+FF10", "U+FF11", "U+FF12", "U+FF13", "U+FF14", "U+FF15", "U+FF16", "U+FF17", "U+FF18", "U+FF19" }

\* the characters str.isdigit takes beyond those of \d
OtherDigitChars ==
    { "²", "³", "¹", "U+1369", "U+136A", "U+136B", "U+136C", "U+136D", "U+136E", "U+136F",
      "U+1370", "U+1371", "U+19DA", "U+2070", "U+2074", "U+2075", "U+2076", "U+2077", "U+2078", "U+2079",
      "U+2080", "U+2081", "U+2082", "U+2083", "U+2084", "U+2085", "U+2086", "U+2087", "U+2088", "U+2089",
      "U+2460", "U+2461", "U+2462", "U+2463", "U+2464", "U+2465", "U+2466", "U+2467", "U+2468", "U+2474",
      "U+2475", "U+2476", "U+2477", "U+2478", "U+2479", "U+247A", "U+247B", "U+247C", "U+2488", "U+2489",
      "U+248A", "U+248B", "U+248C", "U+248D", "U+248E", "U+248F", "U+2490", "U+24EA", "U+24F5", "U+24F6",
      "U+24F7", "U+24F8", "U+24F9", "U+24FA", "U+24FB", "U+24FC", "U+24FD", "U+24FF", "U+2776", "U+2777",
      "U+2778", "U+2779", "U+277A", "U+277B", "U+277C", "U+277D", "U+277E", "U+2780", "U+2781", "U+2782",
      "U+2783", "U+2784", "U+2785", "U+2786", "U+2787", "U+2788", "U+278A", "U+278B", "U+278C", "U+278D",
      "U+278E", "U+278F", "U+2790", "U+2791", "U+2792" }

\* the characters str.isdigit takes
DigitChars == DecimalChars \cup OtherDigitChars

\* the characters \w of the re module matches beyond [A-Za-z_] and the digits
LetterChars ==
    { "ª", "µ", "º", "¼", "½", "¾", "À", "Á", "Â", "Ã", "Ä", "Å",
      "Æ", "Ç", "È", "É", "Ê", "Ë", "Ì", "Í", "Î", "Ï", "Ð", "Ñ",
      "Ò", "Ó", "Ô", "Õ", "Ö", "Ø", "Ù", "Ú", "Û", "Ü", "Ý", "Þ",
      "ß", "à", "á", "â", "ã", "ä", "å", "æ", "ç", "è", "é", "ê",
      "ë", "ì", "í", "î", "ï", "ð", "ñ", "ò", "ó", "ô", "õ", "ö",
      "ø", "ù", "ú", "û", "ü", "ý", "þ", "ÿ", "U+0100", "U+0101", "U+0102", "U+0103",
      "U+0104", "U+0105", "U+0106", "U+0107", "U+0108", "U+0109", "U+010A", "U+010B", "U+010C", "U+010D", "U+010E", "U+010F",
      "U+0110", "U+0111", "U+0112", "U+0113", "U+0114", "U+0115", "U+0116", "U+0117", "U+0118", "U+0119", "U+011A", "U+011B",
      "U+011C", "U+011D", "U+011E", "U+011F", "U+0120", "U+0121", "U+0122", "U+0123", "U+0124", "U+0125", "U+0126", "U+0127",
      "U+0128", "U+0129", "U+012A", "U+012B", "U+012C", "U+012D", "U+012E", "U+012F", "U+0130", "U+0131", "U+0132", "U+0133",
      "U+0134", "U+0135", "U+0136", "U+0137", "U+0138", "U+0139", "U+013A", "U+013B", "U+013C", "U+013D", "U+013E", "U+013F",
      "U+0140", "U+0141", "U+0142", "U+0143", "U+0144", "U+0145", "U+0146", "U+0147", "U+0148", "U+0149", "U+014A", "U+014B",
      "U+014C", "U+014D", "U+014E", "U+014F", "U+0150", "U+0151", "U+0152", "U+0153", "U+0154", "U+0155", "U+0156", "U+0157",
      "U+0158", "U+0159", "U+015A", "U+015B", "U+015C", "U+015D", "U+015E", "U+015F", "U+0160", "U+0161", "U+0162", "U+0163",
      "U+0164", "U+0165", "U+0166", "U+0167", "U+0168", "U+0169", "U+016A", "U+016B", "U+016C", "U+016D", "U+016E", "U+016F",
      "U+0170", "U+0171", "U+0172", "U+0173", "U+0174", "U+0175", "U+0176", "U+0177", "U+0178", "U+0179", "U+017A", "U+017B",
      "U+017C", "U+017D", "U+017E", "U+017F", "U+0180", "U+0181", "U+0182", "U+0183", "U+0184", "U+0185", "U+0186", "U+0187",
      "U+0188", "U+0189", "U+018A", "U+018B", "U+018C", "U+018D", "U+018E", "U+018F", "U+0190", "U+0191", "U+0192", "U+0193",
      "U+0194", "U+0195", "U+0196", "U+0197", "U+0198", "U+0199", "U+019A", "U+019B", "U+019C", "U+019D", "U+019E", "U+019F",
      "U+01A0", "U+01A1", "U+01A2", "U+01A3", "U+01A4", "U+01A5", "U+01A6", "U+01A7", "U+01A8", "U+01A9", "U+01AA", "U+01AB",
      "U+01AC", "U+01AD", "U+01AE", "U+01AF", "U+01B0", "U+01B1", "U+01B2", "U+01B3", "U+01B4", "U+01B5", "U+01B6", "U+01B7",
      "U+01B8", "U+01B9", "U+01BA", "U+01BB", "U+01BC", "U+01BD", "U+01BE", "U+01BF", "U+01C0", "U+01C1", "U+01C2", "U+01C3",
      "U+01C4", "U+01C5", "U+01C6", "U+01C7", "U+01C8", "U+01C9", "U+01CA", "U+01CB", "U+01CC", "U+01CD", "U+01CE", "U+01CF",
      "U+01D0", "U+01D1", "U+01D2", "U+01D3", "U+01D4", "U+01D5", "U+01D6", "U+01D7", "U+01D8", "U+01D9", "U+01DA", "U+01DB",
      "U+01DC", "U+01DD", "U+01DE", "U+01DF", "U+01E0", "U+01E1", "U+01E2", "U+01E3", "U+01E4", "U+01E5", "U+01E6", "U+01E7",
      "U+01E8", "U+01E9", "U+01EA", "U+01EB", "U+01EC", "U+01ED", "U+01EE", "U+01EF", "U+01F0", "U+01F1", "U+01F2", "U+01F3",
      "U+01F4", "U+01F5", "U+01F6", "U+01F7", "U+01F8", "U+01F9", "U+01FA", "U+01FB", "U+01FC", "U+01FD", "U+01FE", "U+01FF",
      "U+0200", "U+0201", "U+0202", "U+0203", "U+0204", "U+0205", "U+0206", "U+0207", "U+0208", "U+0209", "U+020A", "U+020B",
      "U+020C", "U+020D", "U+020E", "U+020F", "U+0210", "U+0211", "U+0212", "U+0213", "U+0214", "U+0215", "U+0216", "U+0217",
      "U+0218", "U+0219", "U+021A", "U+021B", "U+021C", "U+021D", "U+021E", "U+021F", "U+0220", "U+0221", "U+0222", "U+0223",
      "U+0224", "U+0225", "U+0226", "U+0227", "U+0228", "U+0229", "U+022A", "U+022B", "U+022C", "U+022D", "U+022E", "U+022F",
      "U+0230", "U+0231", "U+0232", "U+0233", "U+0234", "U+0235", "U+0236", "U+0237", "U+0238", "U+0239", "U+023A", "U+023B",
      "U+023C", "U+023D", "U+023E", "U+023F", "U+0240", "U+0241", "U+0242", "U+0243", "U+0244", "U+0245", "U+0246", "U+0247",
      "U+0248", "U+0249", "U+024A", "U+024B", "U+024C", "U+024D", "U+024E", "U+024F", "U+0253", "U+0254", "U+0256", "U+0257",
      "U+0259", "U+025B", "U+0260", "U+0263", "U+0268", "U+0269", "U+026F", "U+0272", "U+0275", "U+0280", "U+0283", "U+0288",
      "U+0289", "U+028A", "U+028B", "U+028C", "U+0292", "U+02BC", "U+039C", "U+03BC", "U+2C65", "U+2C66", "U+2C7E", "U+2C7F" }

\* str.lower of the characters beyond A-Z that it changes
LowerPairs ==
    { <<"À", <<"à">>>>, <<"Á", <<"á">>>>, <<"Â", <<"â">>>>, <<"Ã", <<"ã">>>>,
      <<"Ä", <<"ä">>>>, <<"Å", <<"å">>>>, <<"Æ", <<"æ">>>>, <<"Ç", <<"ç">>>>,
      <<"È", <<"è">>>>, <<"É", <<"é">>>>, <<"Ê", <<"ê">>>>, <<"Ë", <<"ë">>>>,
      <<"Ì", <<"ì">>>>, <<"Í", <<"í">>>>, <<"Î", <<"î">>>>, <<"Ï", <<"ï">>>>,
      <<"Ð", <<"ð">>>>, <<"Ñ", <<"ñ">>>>, <<"Ò", <<"ò">>>>, <<"Ó", <<"ó">>>>,
      <<"Ô", <<"ô">>>>, <<"Õ", <<"õ">>>>, <<"Ö", <<"ö">>>>, <<"Ø", <<"ø">>>>,
      <<"Ù", <<"ù">>>>, <<"Ú", <<"ú">>>>, <<"Û", <<"û">>>>, <<"Ü", <<"ü">>>>,
      <<"Ý", <<"ý">>>>, <<"Þ", <<"þ">>>>, <<"U+0100", <<"U+0101">>>>, <<"U+0102", <<"U+0103">>>>,
      <<"U+0104", <<"U+0105">>>>, <<"U+0106", <<"U+0107">>>>, <<"U+0108", <<"U+0109">>>>, <<"U+010A", <<"U+010B">>>>,
      <<"U+010C", <<"U+010D">>>>, <<"U+010E", <<"U+010F">>>>, <<"U+0110", <<"U+0111">>>>, <<"U+0112", <<"U+0113">>>>,
      <<"U+0114", <<"U+0115">>>>, <<"U+0116", <<"U+0117">>>>, <<"U+0118", <<"U+0119">>>>, <<"U+011A", <<"U+011B">>>>,
      <<"U+011C", <<"U+011D">>>>, <<"U+011E", <<"U+011F">>>>, <<"U+0120", <<"U+0121">>>>, <<"U+0122", <<"U+0123">>>>,
      <<"U+0124", <<"U+0125">>>>, <<"U+0126", <<"U+0127">>>>, <<"U+0128", <<"U+0129">>>>, <<"U+012A", <<"U+012B">>>>,
      <<"U+012C", <<"U+012D">>>>, <<"U+012E", <<"U+012F">>>>, <<"U+0130", <<"i", "U+0307">>>>, <<"U+0132", <<"U+0133">>>>,
      <<"U+0134", <<"U+0135">>>>, <<"U+0136", <<"U+0137">>>>, <<"U+0139", <<"U+013A">>>>, <<"U+013B", <<"U+013C">>>>,
      <<"U+013D", <<"U+013E">>>>, <<"U+013F", <<"U+0140">>>>, <<"U+0141", <<"U+0142">>>>, <<"U+0143", <<"U+0144">>>>,
      <<"U+0145", <<"U+0146">>>>, <<"U+0147", <<"U+0148">>>>, <<"U+014A", <<"U+014B">>>>, <<"U+014C", <<"U+014D">>>>,
      <<"U+014E", <<"U+014F">>>>, <<"U+0150", <<"U+0151">>>>, <<"U+0152", <<"U+0153">>>>, <<"U+0154", <<"U+0155">>>>,
      <<"U+0156", <<"U+0157">>>>, <<"U+0158", <<"U+0159">>>>, <<"U+015A", <<"U+015B">>>>, <<"U+015C", <<"U+015D">>>>,
      <<"U+015E", <<"U+015F">>>>, <<"U+0160", <<"U+0161">>>>, <<"U+0162", <<"U+0163">>>>, <<"U+0164", <<"U+0165">>>>,
      <<"U+0166", <<"U+0167">>>>, <<"U+0168", <<"U+0169">>>>, <<"U+016A", <<"U+016B">>>>, <<"U+016C", <<"U+016D">>>>,
      <<"U+016E", <<"U+016F">>>>, <<"U+0170", <<"U+0171">>>>, <<"U+0172", <<"U+0173">>>>, <<"U+0174", <<"U+0175">>>>,
      <<"U+0176", <<"U+0177">>>>, <<"U+0178", <<"ÿ">>>>, <<"U+0179", <<"U+017A">>>>, <<"U+017B", <<"U+017C">>>>,
      <<"U+017D", <<"U+017E">>>>, <<"U+0181", <<"U+0253">>>>, <<"U+0182", <<"U+0183">>>>, <<"U+0184", <<"U+0185">>>>,
      <<"U+0186", <<"U+0254">>>>, <<"U+0187", <<"U+0188">>>>, <<"U+0189", <<"U+0256">>>>, <<"U+018A", <<"U+0257">>>>,
      <<"U+018B", <<"U+018C">>>>, <<"U+018E", <<"U+01DD">>>>, <<"U+018F", <<"U+0259">>>>, <<"U+0190", <<"U+025B">>>>,
      <<"U+0191", <<"U+0192">>>>, <<"U+0193", <<"U+0260">>>>, <<"U+0194", <<"U+0263">>>>, <<"U+0196", <<"U+0269">>>>,
      <<"U+0197", <<"U+0268">>>>, <<"U+0198", <<"U+0199">>>>, <<"U+019C", <<"U+026F">>>>, <<"U+019D", <<"U+0272">>>>,
      <<"U+019F", <<"U+0275">>>>, <<"U+01A0", <<"U+01A1">>>>, <<"U+01A2", <<"U+01A3">>>>, <<"U+01A4", <<"U+01A5">>>>,
      <<"U+01A6", <<"U+0280">>>>, <<"U+01A7", <<"U+01A8">>>>, <<"U+01A9", <<"U+0283">>>>, <<"U+01AC", <<"U+01AD">>>>,
      <<"U+01AE", <<"U+0288">>>>, <<"U+01AF", <<"U+01B0">>>>, <<"U+01B1", <<"U+028A">>>>, <<"U+01B2", <<"U+028B">>>>,
      <<"U+01B3", <<"U+01B4">>>>, <<"U+01B5", <<"U+01B6">>>>, <<"U+01B7", <<"U+0292">>>>, <<"U+01B8", <<"U+01B9">>>>,
      <<"U+01BC", <<"U+01BD">>>>, <<"U+01C4", <<"U+01C6">>>>, <<"U+01C5", <<"U+01C6">>>>, <<"U+01C7", <<"U+01C9">>>>,
      <<"U+01C8", <<"U+01C9">>>>, <<"U+01CA", <<"U+01CC">>>>, <<"U+01CB", <<"U+01CC">>>>, <<"U+01CD", <<"U+01CE">>>>,
      <<"U+01CF", <<"U+01D0">>>>, <<"U+01D1", <<"U+01D2">>>>, <<"U+01D3", <<"U+01D4">>>>, <<"U+01D5", <<"U+01D6">>>>,
      <<"U+01D7", <<"U+01D8">>>>, <<"U+01D9", <<"U+01DA">>>>, <<"U+01DB", <<"U+01DC">>>>, <<"U+01DE", <<"U+01DF">>>>,
      <<"U+01E0", <<"U+01E1">>>>, <<"U+01E2", <<"U+01E3">>>>, <<"U+01E4", <<"U+01E5">>>>, <<"U+01E6", <<"U+01E7">>>>,
      <<"U+01E8", <<"U+01E9">>>>, <<"U+01EA", <<"U+01EB">>>>, <<"U+01EC", <<"U+01ED">>>>, <<"U+01EE", <<"U+01EF">>>>,
      <<"U+01F1", <<"U+01F3">>>>, <<"U+01F2", <<"U+01F3">>>>, <<"U+01F4", <<"U+01F5">>>>, <<"U+01F6", <<"U+0195">>>>,
      <<"U+01F7", <<"U+01BF">>>>, <<"U+01F8", <<"U+01F9">>>>, <<"U+01FA", <<"U+01FB">>>>, <<"U+01FC", <<"U+01FD">>>>,
      <<"U+01FE", <<"U+01FF">>>>, <<"U+0200", <<"U+0201">>>>, <<"U+0202", <<"U+0203">>>>, <<"U+0204", <<"U+0205">>>>,
      <<"U+0206", <<"U+0207">>>>, <<"U+0208", <<"U+0209">>>>, <<"U+020A", <<"U+020B">>>>, <<"U+020C", <<"U+020D">>>>,
      <<"U+020E", <<"U+020F">>>>, <<"U+0210", <<"U+0211">>>>, <<"U+0212", <<"U+0213">>>>, <<"U+0214", <<"U+0215">>>>,
      <<"U+0216", <<"U+0217">>>>, <<"U+0218", <<"U+0219">>>>, <<"U+021A", <<"U+021B">>>>, <<"U+021C", <<"U+021D">>>>,
      <<"U+021E", <<"U+021F">>>>, <<"U+0220", <<"U+019E">>>>, <<"U+0222", <<"U+0223">>>>, <<"U+0224", <<"U+0225">>>>,
      <<"U+0226", <<"U+0227">>>>, <<"U+0228", <<"U+0229">>>>, <<"U+022A", <<"U+022B">>>>, <<"U+022C", <<"U+022D">>>>,
      <<"U+022E", <<"U+022F">>>>, <<"U+0230", <<"U+0231">>>>, <<"U+0232", <<"U+0233">>>>, <<"U+023A", <<"U+2C65">>>>,
      <<"U+023B", <<"U+023C">>>>, <<"U+023D", <<"U+019A">>>>, <<"U+023E", <<"U+2C66">>>>, <<"U+0241", <<"U+0242">>>>,
      <<"U+0243", <<"U+0180">>>>, <<"U+0244", <<"U+0289">>>>, <<"U+0245", <<"U+028C">>>>, <<"U+0246", <<"U+0247">>>>,
      <<"U+0248", <<"U+0249">>>>, <<"U+024A", <<"U+024B">>>>, <<"U+024C", <<"U+024D">>>>, <<"U+024E", <<"U+024F">>>>,
      <<"U+039C", <<"U+03BC">>>>, <<"U+2C7E", <<"U+023F">>>>, <<"U+2C7F", <<"U+0240">>>> }

\* str.upper of the characters beyond a-z that it changes
UpperPairs ==
    { <<"µ", <<"U+039C">>>>, <<"ß", <<"S", "S">>>>, <<"à", <<"À">>>>, <<"á", <<"Á">>>>,
      <<"â", <<"Â">>>>, <<"ã", <<"Ã">>>>, <<"ä", <<"Ä">>>>, <<"å", <<"Å">>>>,
      <<"æ", <<"Æ">>>>, <<"ç", <<"Ç">>>>, <<"è", <<"È">>>>, <<"é", <<"É">>>>,
      <<"ê", <<"Ê">>>>, <<"ë", <<"Ë">>>>, <<"ì", <<"Ì">>>>, <<"í", <<"Í">>>>,
      <<"î", <<"Î">>>>, <<"ï", <<"Ï">>>>, <<"ð", <<"Ð">>>>, <<"ñ", <<"Ñ">>>>,
      <<"ò", <<"Ò">>>>, <<"ó", <<"Ó">>>>, <<"ô", <<"Ô">>>>, <<"õ", <<"Õ">>>>,
      <<"ö", <<"Ö">>>>, <<"ø", <<"Ø">>>>, <<"ù", <<"Ù">>>>, <<"ú", <<"Ú">>>>,
      <<"û", <<"Û">>>>, <<"ü", <<"Ü">>>>, <<"ý", <<"Ý">>>>, <<"þ", <<"Þ">>>>,
      <<"ÿ", <<"U+0178">>>>, <<"U+0101", <<"U+0100">>>>, <<"U+0103", <<"U+0102">>>>, <<"U+0105", <<"U+0104">>>>,
      <<"U+0107", <<"U+0106">>>>, <<"U+0109", <<"U+0108">>>>, <<"U+010B", <<"U+010A">>>>, <<"U+010D", <<"U+010C">>>>,
      <<"U+010F", <<"U+010E">>>>, <<"U+0111", <<"U+0110">>>>, <<"U+0113", <<"U+0112">>>>, <<"U+0115", <<"U+0114">>>>,
      <<"U+0117", <<"U+0116">>>>, <<"U+0119", <<"U+0118">>>>, <<"U+011B", <<"U+011A">>>>, <<"U+011D", <<"U+011C">>>>,
      <<"U+011F", <<"U+011E">>>>, <<"U+0121", <<"U+0120">>>>, <<"U+0123", <<"U+0122">>>>, <<"U+0125", <<"U+0124">>>>,
      <<"U+0127", <<"U+0126">>>>, <<"U+0129", <<"U+0128">>>>, <<"U+012B", <<"U+012A">>>>, <<"U+012D", <<"U+012C">>>>,
      <<"U+012F", <<"U+012E">>>>, <<"U+0131", <<"I">>>>, <<"U+0133", <<"U+0132">>>>, <<"U+0135", <<"U+0134">>>>,
      <<"U+0137", <<"U+0136">>>>, <<"U+013A", <<"U+0139">>>>, <<"U+013C", <<"U+013B">>>>, <<"U+013E", <<"U+013D">>>>,
      <<"U+0140", <<"U+013F">>>>, <<"U+0142", <<"U+0141">>>>, <<"U+0144", <<"U+0143">>>>, <<"U+0146", <<"U+0145">>>>,
      <<"U+0148", <<"U+0147">>>>, <<"U+0149", <<"U+02BC", "N">>>>, <<"U+014B", <<"U+014A">>>>, <<"U+014D", <<"U+014C">>>>,
      <<"U+014F", <<"U+014E">>>>, <<"U+0151", <<"U+0150">>>>, <<"U+0153", <<"U+0152">>>>, <<"U+0155", <<"U+0154">>>>,
      <<"U+0157", <<"U+0156">>>>, <<"U+0159", <<"U+0158">>>>, <<"U+015B", <<"U+015A">>>>, <<"U+015D", <<"U+015C">>>>,
      <<"U+015F", <<"U+015E">>>>, <<"U+0161", <<"U+0160">>>>, <<"U+0163", <<"U+0162">>>>, <<"U+0165", <<"U+0164">>>>,
      <<"U+0167", <<"U+0166">>>>, <<"U+0169", <<"U+0168">>>>, <<"U+016B", <<"U+016A">>>>, <<"U+016D", <<"U+016C">>>>,
      <<"U+016F", <<"U+016E">>>>, <<"U+0171", <<"U+0170">>>>, <<"U+0173", <<"U+0172">>>>, <<"U+0175", <<"U+0174">>>>,
      <<"U+0177", <<"U+0176">>>>, <<"U+017A", <<"U+0179">>>>, <<"U+017C", <<"U+017B">>>>, <<"U+017E", <<"U+017D">>>>,
      <<"U+017F", <<"S">>>>, <<"U+0180", <<"U+0243">>>>, <<"U+0183", <<"U+0182">>>>, <<"U+0185", <<"U+0184">>>>,
      <<"U+0188", <<"U+0187">>>>, <<"U+018C", <<"U+018B">>>>, <<"U+0192", <<"U+0191">>>>, <<"U+0195", <<"U+01F6">>>>,
      <<"U+0199", <<"U+0198">>>>, <<"U+019A", <<"U+023D">>>>, <<"U+019E", <<"U+0220">>>>, <<"U+01A1", <<"U+01A0">>>>,
      <<"U+01A3", <<"U+01A2">>>>, <<"U+01A5", <<"U+01A4">>>>, <<"U+01A8", <<"U+01A7">>>>, <<"U+01AD", <<"U+01AC">>>>,
      <<"U+01B0", <<"U+01AF">>>>, <<"U+01B4", <<"U+01B3">>>>, <<"U+01B6", <<"U+01B5">>>>, <<"U+01B9", <<"U+01B8">>>>,
      <<"U+01BD", <<"U+01BC">>>>, <<"U+01BF", <<"U+01F7">>>>, <<"U+01C5", <<"U+01C4">>>>, <<"U+01C6", <<"U+01C4">>>>,
      <<"U+01C8", <<"U+01C7">>>>, <<"U+01C9", <<"U+01C7">>>>, <<"U+01CB", <<"U+01CA">>>>, <<"U+01CC", <<"U+01CA">>>>,
      <<"U+01CE", <<"U+01CD">>>>, <<"U+01D0", <<"U+01CF">>>>, <<"U+01D2", <<"U+01D1">>>>, <<"U+01D4", <<"U+01D3">>>>,
      <<"U+01D6", <<"U+01D5">>>>, <<"U+01D8", <<"U+01D7">>>>, <<"U+01DA", <<"U+01D9">>>>, <<"U+01DC", <<"U+01DB">>>>,
      <<"U+01DD", <<"U+018E">>>>, <<"U+01DF", <<"U+01DE">>>>, <<"U+01E1", <<"U+01E0">>>>, <<"U+01E3", <<"U+01E2">>>>,
      <<"U+01E5", <<"U+01E4">>>>, <<"U+01E7", <<"U+01E6">>>>, <<"U+01E9", <<"U+01E8">>>>, <<"U+01EB", <<"U+01EA">>>>,
      <<"U+01ED", <<"U+01EC">>>>, <<"U+01EF", <<"U+01EE">>>>, <<"U+01F0", <<"J", "U+030C">>>>, <<"U+01F2", <<"U+01F1">>>>,
      <<"U+01F3", <<"U+01F1">>>>, <<"U+01F5", <<"U+01F4">>>>, <<"U+01F9", <<"U+01F8">>>>, <<"U+01FB", <<"U+01FA">>>>,
      <<"U+01FD", <<"U+01FC">>>>, <<"U+01FF", <<"U+01FE">>>>, <<"U+0201", <<"U+0200">>>>, <<"U+0203", <<"U+0202">>>>,
      <<"U+0205", <<"U+0204">>>>, <<"U+0207", <<"U+0206">>>>, <<"U+0209", <<"U+0208">>>>, <<"U+020B", <<"U+020A">>>>,
      <<"U+020D", <<"U+020C">>>>, <<"U+020F", <<"U+020E">>>>, <<"U+0211", <<"U+0210">>>>, <<"U+0213", <<"U+0212">>>>,
      <<"U+0215", <<"U+0214">>>>, <<"U+0217", <<"U+0216">>>>, <<"U+0219", <<"U+0218">>>>, <<"U+021B", <<"U+021A">>>>,
      <<"U+021D", <<"U+021C">>>>, <<"U+021F", <<"U+021E">>>>, <<"U+0223", <<"U+0222">>>>, <<"U+0225", <<"U+0224">>>>,
      <<"U+0227", <<"U+0226">>>>, <<"U+0229", <<"U+0228">>>>, <<"U+022B", <<"U+022A">>>>, <<"U+022D", <<"U+022C">>>>,
      <<"U+022F", <<"U+022E">>>>, <<"U+0231", <<"U+0230">>>>, <<"U+0233", <<"U+0232">>>>, <<"U+023C", <<"U+023B">>>>,
      <<"U+023F", <<"U+2C7E">>>>, <<"U+0240", <<"U+2C7F">>>>, <<"U+0242", <<"U+0241">>>>, <<"U+0247", <<"U+0246">>>>,
      <<"U+0249", <<"U+0248">>>>, <<"U+024B", <<"U+024A">>>>, <<"U+024D", <<"U+024C">>>>, <<"U+024F", <<"U+024E">>>>,
      <<"U+0253", <<"U+0181">>>>, <<"U+0254", <<"U+0186">>>>, <<"U+0256", <<"U+0189">>>>, <<"U+0257", <<"U+018A">>>>,
      <<"U+0259", <<"U+018F">>>>, <<"U+025B", <<"U+0190">>>>, <<"U+0260", <<"U+0193">>>>, <<"U+0263", <<"U+0194">>>>,
      <<"U+0268", <<"U+0197">>>>, <<"U+0269", <<"U+0196">>>>, <<"U+026F", <<"U+019C">>>>, <<"U+0272", <<"U+019D">>>>,
      <<"U+0275", <<"U+019F">>>>, <<"U+0280", <<"U+01A6">>>>, <<"U+0283", <<"U+01A9">>>>, <<"U+0288", <<"U+01AE">>>>,
      <<"U+0289", <<"U+0244">>>>, <<"U+028A", <<"U+01B1">>>>, <<"U+028B", <<"U+01B2">>>>, <<"U+028C", <<"U+0245">>>>,
      <<"U+0292", <<"U+01B7">>>>, <<"U+03BC", <<"U+039C">>>>, <<"U+2C65", <<"U+023A">>>>, <<"U+2C66", <<"U+023E">>>> }

\* the characters of LowerPairs and of UpperPairs
\* \s of the re module, str.isspace
IsSpace(c) == c \in SpaceChars

\* [A-Za-z]
IsAlpha(c) == \E k \in 1..Len(UpperAlpha) : c = UpperAlpha[k] \/ c = LowerAlpha[k]

\* str.isdigit
IsDigit(c) == c \in DigitChars

\* \d of the re module
IsDecimal(c) == c \in DecimalChars

\* \w of the re module
IsWordChar(c) == IsAlpha(c) \/ IsDigit(c) \/ c = "_" \/ c \in LetterChars

\* what the table pairs makes of the character c: its image, or c itself
PairImage(pairs, c) ==
    IF \E p \in pairs : p[1] = c THEN (CHOOSE p \in pairs : p[1] = c)[2] ELSE <<c>>

\* str.lower of one character (it changes letters only): a text, of two
\* characters for U+0130
LowerChar(c) ==
    IF \E k \in 1..Len(UpperAlpha) : c = UpperAlpha[k]
    THEN <<LowerAlpha[CHOOSE k \in 1..Len(UpperAlpha) : c = UpperAlpha[k]]>>
    ELSE IF c \notin LetterChars THEN <<c>>
    ELSE PairImage(LowerPairs, c)

\* str.upper of one character (it changes letters only): a text, of two
\* characters for U+00DF, U+0149, U+01F0
UpperChar(c) ==
    IF \E k \in 1..Len(LowerAlpha) : c = LowerAlpha[k]
    THEN <<UpperAlpha[CHOOSE k \in 1..Len(LowerAlpha) : c = LowerAlpha[k]]>>
    ELSE IF c \notin LetterChars THEN <<c>>
    ELSE PairImage(UpperPairs, c)

RECURSIVE LStrip(_)
LStrip(s) ==
    IF s = <<>> THEN <<>>
    ELSE IF IsSpace(Head(s)) THEN LStrip(Tail(s)) ELSE s

RECURSIVE RStrip(_)
RStrip(s) ==
    IF s = <<>> THEN <<>>
    ELSE IF IsSpace(s[Len(s)]) THEN RStrip(SubSeq(s, 1, Len(s) - 1)) ELSE s

\* str.strip()
Strip(s) == RStrip(LStrip(s))

\* _WS_RE.sub(" ", s), _WS_RE being \s+: every run of whitespace becomes
\* one space
RECURSIVE CollapseWs(_)
CollapseWs(s) ==
    IF s = <<>> THEN <<>>
    ELSE IF IsSpace(Head(s)) THEN <<" ">> \o CollapseWs(LStrip(s))
    ELSE <<Head(s)>> \o CollapseWs(Tail(s))

\* _clean_ws
CleanWs(s) == CollapseWs(Strip(s))

\* _PUNCT_RE.sub(" ", s): every character that is neither \w nor \s becomes a space
PunctToSpace(s) ==
    [i \in 1..Len(s) |-> IF IsWordChar(s[i]) \/ IsSpace(s[i]) THEN s[i] ELSE " "]

\* s.replace("&", " and ")
RECURSIVE ReplaceAmp(_)
ReplaceAmp(s) ==
    IF s = <<>> THEN <<>>
    ELSE IF Head(s) = "&" THEN <<" ","a","n","d"," ">> \o ReplaceAmp(Tail(s))
    ELSE <<Head(s)>> \o ReplaceAmp(Tail(s))

\* str.split(sep) / re.split("[...]") on single-character separators:
\* empty parts are kept, and a text without separator is one part
RECURSIVE SplitOn(_, _)
SplitOn(s, seps) ==
    IF \A i \in 1..Len(s) : s[i] \notin seps THEN <<s>>
    ELSE LET k == CHOOSE i \in 1..Len(s) :
                     s[i] \in seps /\ \A j \in 1..(i - 1) : s[j] \notin seps
         IN <<SubSeq(s, 1, k - 1)>> \o SplitOn(SubSeq(s, k + 1, Len(s)), seps)

\* sep.join(parts)
RECURSIVE Join(_, _)
Join(parts, sep) ==
    IF parts = <<>> THEN <<>>
    ELSE IF Len(parts) = 1 THEN parts[1]
    ELSE parts[1] \o sep \o Join(Tail(parts), sep)

\* str.lower
Lower(s) == Join([i \in 1..Len(s) |-> LowerChar(s[i])], <<>>)

\* str.upper
Upper(s) == Join([i \in 1..Len(s) |-> UpperChar(s[i])], <<>>)

\* dict.get(t, t) on a dict written as a sequence of <<key, value>> pairs
DictGet(d, t) ==
    IF \E i \in 1..Len(d) : d[i][1] = t
    THEN d[CHOOSE i \in 1..Len(d) : d[i][1] = t][2]
    ELSE t

\* "sub in s"
Contains(s, sub) ==
    \E i \in 1..(Len(s) - Len(sub) + 1) : SubSeq(s, i, i + Len(sub) - 1) = sub

(***************************************************************************)
(* Normalization helpers                                                   *)
(***************************************************************************)
TOKEN_MAP ==
    << <<<<"h","w","y">>, <<"h","i","g","h","w","a","y">>>>,
       <<<<"h","i","g","h","w","y">>, <<"h","i","g","h","w","a","y">>>>,
       <<<<"r","d">>, <<"r","o","a","d">>>>,
       <<<<"s","t">>, <<"s","t","r","e","e","t">>>>,
       <<<<"a","v","e">>, <<"a","v","e","n","u","e">>>>,
       <<<<"b","l","v","d">>, <<"b","o","u","l","e","v","a","r","d">>>>,
       <<<<"l","n">>, <<"l","a","n","e">>>>,
       <<<<"d","r">>, <<"d","r","i","v","e">>>>,
       <<<<"c","t">>, <<"c","o","u","r","t">>>>,
       <<<<"t","r","l">>, <<"t","r","a","i","l">>>>,
       <<<<"p","k","w","y">>, <<"p","a","r","k","w","a","y">>>> >>

ORDINAL_WORDS ==
    << <<<<"f","i","r","s","t">>, <<"1","s","t">>>>,
       <<<<"s","e","c","o","n","d">>, <<"2","n","d">>>>,
       <<<<"t","h","i","r","d">>, <<"3","r","d">>>>,
       <<<<"f","o","u","r","t","h">>, <<"4","t","h">>>>,
       <<<<"f","i","f","t","h">>, <<"5","t","h">>>>,
       <<<<"s","i","x","t","h">>, <<"6","t","h">>>>,
       <<<<"s","e","v","e","n","t","h">>, <<"7","t","h">>>>,
       <<<<"e","i","g","h","t","h">>, <<"8","t","h">>>>,
       <<<<"n","i","n","t","h">>, <<"9","t","h">>>>,
       <<<<"t","e","n","t","h">>, <<"1","0","t","h">>>> >>

normalize_state(s) == Upper(CleanWs(s))

normalize_zip(s) == CleanWs(s)

normalize_city(s) == CleanWs(PunctToSpace(Lower(CleanWs(s))))

\* ([A-Za-z]{2}(?:\s+[A-Za-z]{2})*)\s*$ of DASH_STATE_SUFFIX_RE
RECURSIVE MatchStatePairs(_)
MatchStatePairs(t) ==
    /\ Len(t) >= 2
    /\ IsAlpha(t[1])
    /\ IsAlpha(t[2])
    /\ LET r == SubSeq(t, 3, Len(t))
       IN \/ LStrip(r) = <<>>
          \/ /\ r # <<>>
             /\ IsSpace(r[1])
             /\ MatchStatePairs(LStrip(r))

\* \s*-\s* followed by the state pairs, up to the end of the text
MatchDashStateSuffix(t) ==
    LET a == LStrip(t)
    IN /\ a # <<>>
       /\ a[1] = "-"
       /\ MatchStatePairs(LStrip(Tail(a)))

\* DASH_STATE_SUFFIX_RE.sub("", s): the leftmost match is removed
StripDashStateSuffix(s) ==
    IF \E i \in 1..Len(s) : MatchDashStateSuffix(SubSeq(s, i, Len(s)))
    THEN LET k == CHOOSE i \in 1..Len(s) :
                      /\ MatchDashStateSuffix(SubSeq(s, i, Len(s)))
                      /\ \A j \in 1..(i - 1) : ~MatchDashStateSuffix(SubSeq(s, j, Len(s)))
         IN SubSeq(s, 1, k - 1)
    ELSE s

\* the token loop of normalize_retailer
RetailerToken(t) ==
    IF t \in { <<"c","o">>, <<"c","o","-","o","p">>, <<"c","o","o","p">>,
               <<"c","o","o","p","e","r","a","t","i","v","e">>,
               <<"c","o","o","p","e","r","a","t","i","v","e","s">> }
    THEN <<"c","o","o","p","e","r","a","t","i","v","e">>
    ELSE IF t \in { <<"i","n","c">>, <<"i","n","c","o","r","p","o","r","a","t","e","d">> }
    THEN <<"i","n","c">>
    ELSE IF t \in { <<"c","o","m","p","a","n","y">>, <<"c","o",".">> }
    THEN <<"c","o">>
    ELSE t

normalize_retailer(raw) ==
    LET s1 == StripDashStateSuffix(CleanWs(raw))
        s2 == CleanWs(PunctToSpace(ReplaceAmp(Lower(s1))))
        tokens == SplitOn(s2, {" "})
        out_tokens == [i \in 1..Len(tokens) |-> RetailerToken(tokens[i])]
    IN CleanWs(Join(out_tokens, <<" ">>))

normalize_address(raw) ==
    LET s == CleanWs(PunctToSpace(Lower(CleanWs(raw))))
        tokens == SplitOn(s, {" "})
        t1 == [i \in 1..Len(tokens) |-> DictGet(ORDINAL_WORDS, tokens[i])]
        t2 == [i \in 1..Len(t1) |-> DictGet(TOKEN_MAP, t1[i])]
    IN CleanWs(Join(t2, <<" ">>))

\* the list comprehension of canonical_suppliers: cleaned parts, empties dropped
RECURSIVE CleanParts(_)
CleanParts(parts) ==
    IF parts = <<>> THEN <<>>
    ELSE IF CleanWs(Head(parts)) = <<>> THEN CleanParts(Tail(parts))
    ELSE <<CleanWs(Head(parts))>> \o CleanParts(Tail(parts))

canonical_suppliers(raw) ==
    LET s == CleanWs(raw)
    IN IF s = <<>> THEN <<>>
       ELSE Join(CleanParts(SplitOn(s, {";", ","})), <<",", " ">>)

CatCorporateHQ == <<"C","o","r","p","o","r","a","t","e"," ","H","Q">>

CatDistribution == <<"D","i","s","t","r","i","b","u","t","i","o","n">>

CatCStore ==
    <<"C","-","S","t","o","r","e","/","S","e","r","v","i","c","e","/","E","n","e","r","g","y">>

CatGrainFeed == <<"G","r","a","i","n","/","F","e","e","d">>

CatAgronomy == <<"A","g","r","o","n","o","m","y">>

CatKingpin == <<"K","i","n","g","p","i","n">>

canonicalize_category(raw) ==
    LET s == CleanWs(raw)
        low == Lower(s)
    IN IF s = <<>> THEN <<>>
       ELSE IF low \in { <<"n","a","n">>, <<"n","o","n","e">>, <<"n","u","l","l">> } THEN <<>>
       ELSE IF Contains(low, <<"c","o","r","p","o","r","a","t","e">>) \/ Contains(low, <<"h","q">>)
            THEN CatCorporateHQ
       ELSE IF Contains(low, <<"d","i","s","t","r","i","b","u","t","i","o","n">>)
            THEN CatDistribution
       ELSE IF \/ Contains(low, <<"c","-","s","t","o","r","e">>)
               \/ Contains(low, <<"c"," ","s","t","o","r","e">>)
               \/ Contains(low, <<"s","e","r","v","i","c","e">>)
               \/ Contains(low, <<"e","n","e","r","g","y">>)
            THEN CatCStore
       ELSE IF Contains(low, <<"g","r","a","i","n">>) \/ Contains(low, <<"f","e","e","d">>)
            THEN CatGrainFeed
       ELSE IF Contains(low, <<"a","g","r","o","n","o","m","y">>) THEN CatAgronomy
       ELSE IF Contains(low, <<"k","i","n","g","p","i","n">>) THEN CatKingpin
       ELSE IF Contains(s, <<",">>) THEN Strip(SplitOn(s, {","})[1])
       ELSE s

(***************************************************************************)
(* Numbers.  A Python float is one of                                      *)
(*   [k |-> "fin", u, e]  the finite value (10*u + e) * 1e-8, e in 0..9,   *)
(*   [k |-> "nan"], [k |-> "inf"], [k |-> "ninf"],                         *)
(* and a spreadsheet / CSV / JSON cell is a float written as text, or      *)
(*   [k |-> "blank"]  an empty cell,  [k |-> "text"]  text float() rejects.*)
(* u counts 1e-7 degrees, the precision _unique_lonlat rounds to, and e is *)
(* the eighth decimal.  None is the "none" value.                          *)
(***************************************************************************)
Fin(u, e) == [k |-> "fin", u |-> u, e |-> e]

\* whole and fractional degrees: Deg(-93, 61) is -93.61 (d and h have d's sign)
Deg(d, h) == Fin(d * 10000000 + (IF d < 0 THEN -h ELSE h) * 100000, 0)

NaN == [k |-> "nan", u |-> 0, e |-> 0]

PosInf == [k |-> "inf", u |-> 0, e |-> 0]

NegInf == [k |-> "ninf", u |-> 0, e |-> 0]

BlankCell == [k |-> "blank", u |-> 0, e |-> 0]

TextCell == [k |-> "text", u |-> 0, e |-> 0]

None == [k |-> "none", u |-> 0, e |-> 0]

\* a pair (lon, lat), or None
NoLonLat == <<>>

\* _parse_float_maybe: blank text and text float() rejects give None
_parse_float_maybe(v) == IF v.k \in {"blank", "text", "none"} THEN None ELSE v

\* float(v) succeeds: v is a number, or text that spells one
Floatable(v) == v.k \in {"fin", "nan", "inf", "ninf"}

\* "x or y" on Optional[float]: None and 0.0 are falsy, nan and inf are truthy
FloatOr(x, y) == IF x.k = "none" \/ (x.k = "fin" /\ x.u = 0 /\ x.e = 0) THEN y ELSE x

\* lo <= x <= hi for whole degrees lo, hi (False on nan, as in Python)
InDegrees(x, lo, hi) ==
    /\ x.k = "fin"
    /\ x.u >= lo * 10000000
    /\ \/ x.u < hi * 10000000
       \/ x.u = hi * 10000000 /\ x.e = 0

mutant_is_valid_lonlat(lon, lat) ==
    /\ lon.k # "none" /\ lat.k # "none"
    /\ lon.k \in {"fin", "nan", "inf", "ninf"}
    /\ lat.k \in {"fin", "nan", "inf", "ninf"}

_is_valid_lonlat(lon, lat) ==
    IF lon.k = "none" \/ lat.k = "none" THEN FALSE
    ELSE IF lon.k \in {"nan", "inf", "ninf"} THEN FALSE
    ELSE IF lat.k \in {"nan", "inf", "ninf"} THEN FALSE
    ELSE IF ~InDegrees(lon, -180, 180) THEN FALSE
    ELSE IF ~InDegrees(lat, -90, 90) THEN FALSE
    ELSE TRUE

\* get_row_lonlat: the row's own LAT/LON (then Latitude/Longitude) if valid
get_row_lonlat(row) ==
    LET lat == FloatOr(_parse_float_maybe(row.LAT), _parse_float_maybe(row.Latitude))
        lon == FloatOr(_parse_float_maybe(row.LON), _parse_float_maybe(row.Longitude))
    IN IF lat.k = "none" \/ lon.k = "none" THEN NoLonLat
       ELSE IF ~_is_valid_lonlat(lon, lat) THEN NoLonLat
       ELSE <<lon, lat>>

\* the largest k with 2^k <= v, for v >= 1
RECURSIVE ILog2(_)
ILog2(v) == IF v < 2 THEN 0 ELSE 1 + ILog2(v \div 2)

\* the smallest k with n * 2^k >= 10^8, for 0 < n < 10^8
RECURSIVE Doublings(_)
Doublings(n) == IF n >= 100000000 THEN 0 ELSE 1 + Doublings(2 * n)

\* 2^s modulo 10^8
RECURSIVE Pow2Mod(_)
Pow2Mod(s) == IF s = 0 THEN 1 ELSE (2 * Pow2Mod(s - 1)) % 100000000

\* a * b modulo 10^8 for a, b below 10^8, on 32-bit integers
MulMod(a, b) ==
    ((((a \div 10000) * (b % 10000) + (a % 10000) * (b \div 10000)) % 10000) * 10000
     + (a % 10000) * (b % 10000)) % 100000000

\* The float nearest to the decimal (10 * a + 5) / 10^8, a >= 0, is m / 2^s
\* with 2^52 <= m < 2^53; HalfRemainder is what (10 * a + 5) * 2^s leaves
\* modulo 10^8: the float is the decimal when it is 0, below the decimal
\* when it is under half of 10^8, above it otherwise.
HalfRemainder(a) ==
    MulMod((a % 10000000) * 10 + 5,
           Pow2Mod(IF a >= 10000000 THEN 52 - ILog2(a \div 10000000)
                   ELSE 52 + Doublings(10 * a + 5)))

\* round(x, 7) of the float whose size is (10 * a + 5) / 10^8 goes away from
\* zero: the float is above the decimal, or it is the decimal and a is odd
\* (round rounds the binary value of the float, a tie to even)
HalfRoundsUp(a) ==
    IF HalfRemainder(a) = 0 THEN a % 2 = 1 ELSE HalfRemainder(a) > 50000000

\* round(x, 7) on a coordinate: to the nearest 1e-7; an eighth decimal of
\* exactly 5 is decided by the binary value of the float
Round7(x) ==
    IF x.k # "fin" THEN x
    ELSE IF x.e < 5 THEN Fin(x.u, 0)
    ELSE IF x.e > 5 THEN Fin(x.u + 1, 0)
    ELSE IF x.u >= 0
    THEN (IF HalfRoundsUp(x.u) THEN Fin(x.u + 1, 0) ELSE Fin(x.u, 0))
    ELSE (IF HalfRoundsUp(-x.u - 1) THEN Fin(x.u, 0) ELSE Fin(x.u + 1, 0))

mutant_unique_lonlat(lst) ==
    IF lst = <<>> THEN NoLonLat
    ELSE <<Round7(lst[1][1]), Round7(lst[1][2])>>

\* _unique_lonlat: the one rounded coordinate of the list, or None
_unique_lonlat(lst) ==
    IF lst = <<>> THEN NoLonLat
    ELSE LET uniq == { <<Round7(lst[i][1]), Round7(lst[i][2])>> : i \in 1..Len(lst) }
         IN IF Cardinality(uniq) = 1 THEN CHOOSE x \in uniq : TRUE ELSE NoLonLat

(***************************************************************************)
(* Rows of the workbooks as read_kingpins_xlsx returns them: one record    *)
(* per row under the canonical keys, text cells as character sequences and *)
(* the coordinate cells as number cells.  The reader renames LATITUDE and  *)
(* LONGITUDE to LAT and LON, so Latitude and Longitude are always blank.   *)
(***************************************************************************)
KRow(retailer, contact, addr, city, st0, zip, office, cellph, supp, full, lat, lon) ==
    [Retailer |-> retailer, ContactName |-> contact, ContactTitle |-> <<>>,
     Address |-> addr, City |-> city, State |-> st0, Zip |-> zip, Email |-> <<>>,
     OfficePhone |-> office, CellPhone |-> cellph, Suppliers |-> supp,
     FullAddress |-> full, LAT |-> lat, LON |-> lon,
     Latitude |-> BlankCell, Longitude |-> BlankCell]

is_blank_row(row) ==
    /\ \A s \in { row.Retailer, row.ContactName, row.Address, row.City, row.State,
                  row.Zip, row.Email, row.OfficePhone, row.CellPhone } : CleanWs(s) = <<>>
    /\ \A c \in { row.LAT, row.LON, row.Latitude, row.Longitude } : c.k = "blank"

\* has_min_required over KINGPIN_REQUIRED_MIN
has_min_required(retailer, contact, addr, city, st0, zip) ==
    \A s \in { retailer, contact, addr, city, st0, zip } : CleanWs(s) # <<>>

(***************************************************************************)
(* Area code fallback                                                      *)
(***************************************************************************)
\* PHONE_DIGITS_RE.sub("", phone)
_digits_only(phone) == SelectSeq(phone, IsDecimal)

\* one pass of the loop of extract_area_code over (office_phone, cell_phone)
AreaCodeOf(raw) ==
    LET d0 == _digits_only(CleanWs(raw))
        d == IF Len(d0) = 11 /\ d0[1] = "1" THEN Tail(d0) ELSE d0
    IN IF d0 = <<>> THEN <<>>
       ELSE IF Len(d) >= 10 THEN SubSeq(d, 1, 3)
       ELSE <<>>

extract_area_code(office_phone, cell_phone) ==
    IF AreaCodeOf(office_phone) # <<>> THEN AreaCodeOf(office_phone)
    ELSE AreaCodeOf(cell_phone)

\* load_area_code_centers over the rows of the CSV (a missing file has no rows);
\* a later row of the same area code replaces an earlier one
RECURSIVE load_area_code_centers(_)
load_area_code_centers(rows) ==
    IF rows = <<>> THEN <<>>
    ELSE LET init == load_area_code_centers(SubSeq(rows, 1, Len(rows) - 1))
             row == rows[Len(rows)]
             ac == Strip(CleanWs(row.AreaCode))
             lat == _parse_float_maybe(row.LAT)
             lon == _parse_float_maybe(row.LON)
             cen == [ac |-> ac, City |-> CleanWs(row.City), State |-> normalize_state(row.State),
                     Zip |-> CleanWs(row.Zip), LAT |-> lat, LON |-> lon]
         IN IF ac = <<>> \/ (\E i \in 1..Len(ac) : ~IsDigit(ac[i])) \/ Len(ac) # 3 THEN init
            ELSE IF lat.k = "none" \/ lon.k = "none" THEN init
            ELSE IF ~_is_valid_lonlat(lon, lat) THEN init
            ELSE SelectSeq(init, LAMBDA c : c.ac # ac) \o <<cen>>

\* "ac in area_centers" and area_centers[ac] on the loaded table
HasCenter(centers, ac) == \E i \in 1..Len(centers) : centers[i].ac = ac

CenterOf(centers, ac) ==
    centers[CHOOSE i \in 1..Len(centers) : centers[i].ac = ac]

is_address_usable(addr, city, st0, zipc, fulladdr) ==
    IF CleanWs(fulladdr) # <<>> THEN TRUE
    ELSE IF CleanWs(addr) # <<>> /\ CleanWs(city) # <<>> /\ CleanWs(st0) # <<>> THEN TRUE
    ELSE FALSE

(***************************************************************************)
(* Index keys                                                              *)
(***************************************************************************)
Bar == <<"|">>

address_key(retailer, address, city, state, zipc) ==
    retailer \o Bar \o address \o Bar \o city \o Bar \o state \o Bar \o zipc

addr_no_zip_key(retailer, address, city, state) ==
    retailer \o Bar \o address \o Bar \o city \o Bar \o state

city_key(retailer, city, state, zipc) ==
    retailer \o Bar \o city \o Bar \o state \o Bar \o zipc

retailer_state_key(retailer, state) == retailer \o Bar \o state

\* d.get(k, []) on a dict of lists
GetList(d, k) == IF k \in DOMAIN d THEN d[k] ELSE <<>>

(***************************************************************************)
(* Facility model + loaders                                                *)
(***************************************************************************)
\* one Point feature of retailers.geojson: its properties and its coordinates
Feature(retailer, name, addr, city, st0, zip, cat, supp, longname, lon, lat) ==
    [Retailer |-> retailer, Name |-> name, Address |-> addr, City |-> city,
     State |-> st0, Zip |-> zip, Category |-> cat, Suppliers |-> supp,
     LongName |-> longname, lon |-> lon, lat |-> lat]

\* the body of the loop of load_retailers_geojson for one feature
FacilityOf(feat) ==
    LET r_raw == CleanWs(feat.Retailer)
        a_raw == CleanWs(feat.Address)
        c_raw == CleanWs(feat.City)
        cat == canonicalize_category(feat.Category)
    IN [retailer_raw |-> r_raw,
        retailer_norm |-> normalize_retailer(r_raw),
        name |-> CleanWs(feat.Name),
        address_raw |-> a_raw,
        address_norm |-> normalize_address(a_raw),
        city_raw |-> c_raw,
        city_norm |-> normalize_city(c_raw),
        state |-> normalize_state(feat.State),
        zipc |-> normalize_zip(feat.Zip),
        category |-> IF cat = <<>> THEN CatAgronomy ELSE cat,
        suppliers |-> canonical_suppliers(feat.Suppliers),
        longname |-> CleanWs(feat.LongName),
        lon |-> feat.lon,
        lat |-> feat.lat]

RECURSIVE load_retailers_geojson(_)
load_retailers_geojson(feats) ==
    IF feats = <<>> THEN <<>>
    ELSE LET feat == Head(feats)
             rest == load_retailers_geojson(Tail(feats))
             lon == _parse_float_maybe(feat.lon)
             lat == _parse_float_maybe(feat.lat)
         IN IF lon.k = "none" \/ lat.k = "none" THEN rest
            ELSE IF ~_is_valid_lonlat(lon, lat) THEN rest
            ELSE IF \E s \in { feat.Retailer, feat.Address, feat.City, feat.State, feat.Zip } :
                        CleanWs(s) = <<>>
                 THEN rest
            ELSE <<FacilityOf(feat)>> \o rest

FacAddressKey(f) == address_key(f.retailer_norm, f.address_norm, f.city_norm, f.state, f.zipc)

FacCityKey(f) == city_key(f.retailer_norm, f.city_norm, f.state, f.zipc)

FacRetailerStateKey(f) == retailer_state_key(f.retailer_norm, f.state)

\* dict.setdefault(key, []).append(f) over the list: buckets keep the list's order
Bucket(items, Key(_)) ==
    [k \in { Key(items[i]) : i \in 1..Len(items) } |->
        SelectSeq(items, LAMBDA f : Key(f) = k)]

build_facility_indexes(facilities) ==
    [by_addr |-> Bucket(facilities, FacAddressKey),
     by_city |-> Bucket(facilities, FacCityKey),
     by_retailer_state |-> Bucket(facilities, FacRetailerStateKey)]

\* the sort key of choose_best_facility
score(f) ==
    <<IF Lower(f.category) = Lower(CatCorporateHQ) THEN 1 ELSE 0,
      Len(f.address_raw),
      IF Len(f.name) >= Len(f.longname) THEN Len(f.name) ELSE Len(f.longname)>>

\* tuple comparison a > b
ScoreGreater(a, b) ==
    \/ a[1] > b[1]
    \/ a[1] = b[1] /\ a[2] > b[2]
    \/ a[1] = b[1] /\ a[2] = b[2] /\ a[3] > b[3]

mutant_choose_best_facility(cands) == cands[1]

\* sorted(cands, key=score, reverse=True)[0]: the sort is stable, so among the
\* candidates of greatest score the first of the list wins
choose_best_facility(cands) ==
    cands[CHOOSE i \in 1..Len(cands) :
            /\ \A j \in 1..Len(cands) : ~ScoreGreater(score(cands[j]), score(cands[i]))
            /\ \A j \in 1..(i - 1) : score(cands[j]) # score(cands[i])]

(***************************************************************************)
(* Coordinate indexes from kingpin_latlong.xlsx                            *)
(***************************************************************************)
_best_addr_source(row) ==
    IF CleanWs(row.Address) # <<>> THEN CleanWs(row.Address) ELSE CleanWs(row.FullAddress)

_norm_parts_for_coords(row) ==
    [r_norm |-> normalize_retailer(CleanWs(row.Retailer)),
     a_norm |-> normalize_address(_best_addr_source(row)),
     c_norm |-> normalize_city(CleanWs(row.City)),
     st |-> normalize_state(row.State),
     z |-> normalize_zip(row.Zip)]

\* the rows build_coords_indexes keeps: a valid own coordinate, a retailer, a state
RECURSIVE CoordEntries(_)
CoordEntries(latlong_rows) ==
    IF latlong_rows = <<>> THEN <<>>
    ELSE LET row == Head(latlong_rows)
             rest == CoordEntries(Tail(latlong_rows))
             lonlat == get_row_lonlat(row)
             np == _norm_parts_for_coords(row)
         IN IF lonlat = NoLonLat THEN rest
            ELSE IF np.r_norm = <<>> \/ np.st = <<>> THEN rest
            ELSE <<[np |-> np, lonlat |-> lonlat]>> \o rest

EntryAddressKey(x) == address_key(x.np.r_norm, x.np.a_norm, x.np.c_norm, x.np.st, x.np.z)

EntryNoZipKey(x) == addr_no_zip_key(x.np.r_norm, x.np.a_norm, x.np.c_norm, x.np.st)

EntryCityKey(x) == city_key(x.np.r_norm, x.np.c_norm, x.np.st, x.np.z)

EntryRetailerStateKey(x) == retailer_state_key(x.np.r_norm, x.np.st)

\* the coordinates of a bucket, in row order
LonLats(xs) == [i \in 1..Len(xs) |-> xs[i].lonlat]

BucketLonLats(items, Key(_)) ==
    LET b == Bucket(items, Key) IN [k \in DOMAIN b |-> LonLats(b[k])]

build_coords_indexes(latlong_rows) ==
    LET es == CoordEntries(latlong_rows)
        full == SelectSeq(es, LAMBDA x : x.np.a_norm # <<>> /\ x.np.c_norm # <<>> /\ x.np.z # <<>>)
        nozip == SelectSeq(es, LAMBDA x : x.np.a_norm # <<>> /\ x.np.c_norm # <<>>)
        city == SelectSeq(es, LAMBDA x : x.np.c_norm # <<>> /\ x.np.z # <<>>)
        first == BucketLonLats(full, EntryAddressKey)
    IN [idx_addr |-> [k \in DOMAIN first |-> first[k][1]],
        idx_addr_nozip |-> BucketLonLats(nozip, EntryNoZipKey),
        idx_city |-> BucketLonLats(city, EntryCityKey),
        idx_retailer_st |-> BucketLonLats(es, EntryRetailerStateKey)]

(***************************************************************************)
(* Geocode cache and Mapbox geocoding                                        *)
(***************************************************************************)
\* _clean_ws(f"{address}, {city}, {state} {zipc}").lower()
cache_key_full(address, city, state, zipc) ==
    Lower(CleanWs(address \o <<",", " ">> \o city \o <<",", " ">> \o state \o <<" ">> \o zipc))

\* What the service does with one request: the request raises (timeout,
\* connection error), or it answers with an HTTP status and, on 200, a body
\* that is not JSON or a feature list whose first feature has a "center".
Timeout == [kind |-> "raise", status |-> 0, json |-> FALSE, centers |-> <<>>]

Http(status) == [kind |-> "http", status |-> status, json |-> TRUE, centers |-> <<>>]

\* a 200 response whose body is not JSON: r.json() raises
Malformed == [kind |-> "http", status |-> 200, json |-> FALSE, centers |-> <<>>]

Found(center) == [kind |-> "http", status |-> 200, json |-> TRUE, centers |-> <<center>>]

\* the center of the first feature is returned without the validity check
mutant_geocode_address_mapbox(resp, sleep_positive) ==
    IF resp.kind = "raise"
    THEN [gl |-> NoLonLat, status |-> 0, reason |-> "EXCEPTION", slept |-> FALSE]
    ELSE IF resp.status # 200
    THEN [gl |-> NoLonLat, status |-> resp.status, reason |-> "HTTP", slept |-> FALSE]
    ELSE IF resp.centers = <<>>
    THEN [gl |-> NoLonLat, status |-> 200, reason |-> "NO_FEATURES", slept |-> FALSE]
    ELSE [gl |-> <<resp.centers[1][1], resp.centers[1][2]>>, status |-> 200, reason |-> "OK",
          slept |-> sleep_positive]

\* geocode_address_mapbox on the response resp: (lonlat, status, reason), and
\* whether it slept
geocode_address_mapbox(resp, sleep_positive) ==
    IF resp.kind = "raise"
    THEN [gl |-> NoLonLat, status |-> 0, reason |-> "EXCEPTION", slept |-> FALSE]
    ELSE IF resp.status # 200
    THEN [gl |-> NoLonLat, status |-> resp.status, reason |-> "HTTP", slept |-> FALSE]
    ELSE IF ~resp.json
    THEN [gl |-> NoLonLat, status |-> 0, reason |-> "EXCEPTION", slept |-> FALSE]
    ELSE IF resp.centers = <<>>
    THEN [gl |-> NoLonLat, status |-> 200, reason |-> "NO_FEATURES", slept |-> FALSE]
    ELSE LET center == resp.centers[1]
         IN IF Len(center) # 2
            THEN [gl |-> NoLonLat, status |-> 200, reason |-> "BAD_CENTER", slept |-> FALSE]
            ELSE IF ~Floatable(center[1]) \/ ~Floatable(center[2])
            THEN [gl |-> NoLonLat, status |-> 0, reason |-> "EXCEPTION", slept |-> FALSE]
            ELSE IF ~_is_valid_lonlat(center[1], center[2])
            THEN [gl |-> NoLonLat, status |-> 200, reason |-> "INVALID_COORDS", slept |-> FALSE]
            ELSE [gl |-> <<center[1], center[2]>>, status |-> 200, reason |-> "OK",
                  slept |-> sleep_positive]

(***************************************************************************)
(* main: the body of "for row in raw_rows", block by block                 *)
(***************************************************************************)
\* str.strip(chars)
RECURSIVE StripChars(_, _)
StripChars(s, chars) ==
    IF s = <<>> THEN <<>>
    ELSE IF Head(s) \in chars THEN StripChars(Tail(s), chars)
    ELSE IF s[Len(s)] \in chars THEN StripChars(SubSeq(s, 1, Len(s) - 1), chars)
    ELSE s

\* the cleaned fields read from the row at the top of the loop body
RowFields(row) ==
    [retailer_raw |-> CleanWs(row.Retailer),
     suppliers_raw |-> canonical_suppliers(row.Suppliers),
     contact |-> CleanWs(row.ContactName),
     title |-> CleanWs(row.ContactTitle),
     email |-> CleanWs(row.Email),
     office |-> CleanWs(row.OfficePhone),
     cell |-> CleanWs(row.CellPhone),
     addr_raw |-> CleanWs(row.Address),
     city_raw |-> CleanWs(row.City),
     state |-> normalize_state(row.State),
     zipc |-> normalize_zip(row.Zip),
     fulladdr |-> CleanWs(row.FullAddress)]

\* f"City Center, {city_raw}, {state} {zipc}".strip(", ").strip()
CityCenterLabel(city_raw, state, zipc) ==
    Strip(StripChars(<<"C","i","t","y"," ","C","e","n","t","e","r",",", " ">>
                     \o city_raw \o <<",", " ">> \o state \o <<" ">> \o zipc,
                     {",", " "}))

\* `x or y` on text
TextOr(x, y) == IF x # <<>> THEN x ELSE y

\* a contact whose area code has no center is kept instead of dropped
mutant_AreaCodePlacement(f, centers) ==
    LET address_ok == is_address_usable(f.addr_raw, f.city_raw, f.state, f.zipc, f.fulladdr)
        phone_ok == CleanWs(f.office) # <<>> \/ CleanWs(f.cell) # <<>>
        ac == extract_area_code(f.office, f.cell)
        keep == [kind |-> "address", address_ok |-> address_ok, ac |-> ac,
                 addr_raw |-> f.addr_raw,
                 city_raw |-> f.city_raw, state |-> f.state, zipc |-> f.zipc,
                 fulladdr |-> f.fulladdr, lonlat |-> NoLonLat]
    IN IF ~address_ok /\ ~phone_ok THEN [keep EXCEPT !.kind = "drop"]
       ELSE IF ~address_ok /\ phone_ok
       THEN IF ac # <<>> /\ HasCenter(centers, ac)
            THEN LET cen == CenterOf(centers, ac)
                     city_raw == TextOr(cen.City, f.city_raw)
                     state == TextOr(cen.State, f.state)
                     zipc == TextOr(cen.Zip, f.zipc)
                 IN [kind |-> "placed", address_ok |-> address_ok, ac |-> ac,
                     addr_raw |-> <<>>,
                     city_raw |-> city_raw, state |-> state, zipc |-> zipc,
                     fulladdr |-> CityCenterLabel(city_raw, state, zipc),
                     lonlat |-> <<cen.LON, cen.LAT>>]
            ELSE keep
       ELSE keep

\* The remote-kingpin rule: the row is dropped ("drop"), placed on the city
\* center of its area code ("placed": fields rewritten, lonlat set), or kept as
\* it is with lonlat = None ("address").
AreaCodePlacement(f, centers) ==
    LET address_ok == is_address_usable(f.addr_raw, f.city_raw, f.state, f.zipc, f.fulladdr)
        phone_ok == CleanWs(f.office) # <<>> \/ CleanWs(f.cell) # <<>>
        ac == extract_area_code(f.office, f.cell)
        keep == [kind |-> "address", address_ok |-> address_ok, ac |-> ac,
                 addr_raw |-> f.addr_raw,
                 city_raw |-> f.city_raw, state |-> f.state, zipc |-> f.zipc,
                 fulladdr |-> f.fulladdr, lonlat |-> NoLonLat]
    IN IF ~address_ok /\ ~phone_ok THEN [keep EXCEPT !.kind = "drop"]
       ELSE IF ~address_ok /\ phone_ok
       THEN IF ac # <<>> /\ HasCenter(centers, ac)
            THEN LET cen == CenterOf(centers, ac)
                     city_raw == TextOr(cen.City, f.city_raw)
                     state == TextOr(cen.State, f.state)
                     zipc == TextOr(cen.Zip, f.zipc)
                 IN [kind |-> "placed", address_ok |-> address_ok, ac |-> ac,
                     addr_raw |-> <<>>,
                     city_raw |-> city_raw, state |-> state, zipc |-> zipc,
                     fulladdr |-> CityCenterLabel(city_raw, state, zipc),
                     lonlat |-> <<cen.LON, cen.LAT>>]
            ELSE [keep EXCEPT !.kind = "drop"]
       ELSE keep

\* the matching keys of the row
MatchingKeys(retailer_raw, addr_raw, city_raw, state, zipc) ==
    LET r_norm == normalize_retailer(retailer_raw)
        a_norm == normalize_address(addr_raw)
        c_norm == normalize_city(city_raw)
    IN [r_norm |-> r_norm, a_norm |-> a_norm, c_norm |-> c_norm, state |-> state, zipc |-> zipc,
        ak |-> address_key(r_norm, a_norm, c_norm, state, zipc),
        anz |-> addr_no_zip_key(r_norm, a_norm, c_norm, state),
        ck |-> city_key(r_norm, c_norm, state, zipc),
        rk |-> retailer_state_key(r_norm, state)]

\* idx_addr.get(ak) under its guard
CoordsExact(k, cidx) ==
    IF k.a_norm # <<>> /\ k.c_norm # <<>> /\ k.state # <<>> /\ k.zipc # <<>>
       /\ k.ak \in DOMAIN cidx.idx_addr
    THEN cidx.idx_addr[k.ak] ELSE NoLonLat

\* _unique_lonlat(idx_addr_nozip.get(anz, [])) under its guard
CoordsNoZip(k, cidx) ==
    IF k.a_norm # <<>> /\ k.c_norm # <<>> /\ k.state # <<>>
    THEN _unique_lonlat(GetList(cidx.idx_addr_nozip, k.anz)) ELSE NoLonLat

\* _unique_lonlat(idx_city.get(ck, [])) under its guard
CoordsCity(k, cidx) ==
    IF k.c_norm # <<>> /\ k.state # <<>> /\ k.zipc # <<>>
    THEN _unique_lonlat(GetList(cidx.idx_city, k.ck)) ELSE NoLonLat

\* _unique_lonlat(idx_retailer_st.get(rk, [])) under its guard
CoordsRetailerState(k, cidx) ==
    IF k.r_norm # <<>> /\ k.state # <<>>
    THEN _unique_lonlat(GetList(cidx.idx_retailer_st, k.rk)) ELSE NoLonLat

\* the address-without-zip key is looked up before the exact key
mutant_LatlongCoords(k, cidx) ==
    IF CoordsNoZip(k, cidx) # NoLonLat THEN [lonlat |-> CoordsNoZip(k, cidx), via |-> "nozip"]
    ELSE IF CoordsExact(k, cidx) # NoLonLat
    THEN [lonlat |-> CoordsExact(k, cidx), via |-> "exact"]
    ELSE [lonlat |-> NoLonLat, via |-> "none"]

\* coordinate attachment from kingpin_latlong.xlsx: exact key, then the
\* address-without-zip, city and retailer+state keys when their coordinate is
\* unique; each lookup runs only while lonlat is None
LatlongCoords(k, cidx) ==
    IF CoordsExact(k, cidx) # NoLonLat
    THEN [lonlat |-> CoordsExact(k, cidx), via |-> "exact"]
    ELSE IF CoordsNoZip(k, cidx) # NoLonLat
    THEN [lonlat |-> CoordsNoZip(k, cidx), via |-> "nozip"]
    ELSE IF CoordsCity(k, cidx) # NoLonLat
    THEN [lonlat |-> CoordsCity(k, cidx), via |-> "city"]
    ELSE IF CoordsRetailerState(k, cidx) # NoLonLat
    THEN [lonlat |-> CoordsRetailerState(k, cidx), via |-> "retailer_state"]
    ELSE [lonlat |-> NoLonLat, via |-> "none"]

\* the retailer+state key is tried before the address key
mutant_FacilityMatch(k, fidx) ==
    LET c1 == GetList(fidx.by_addr, k.ak)
        c3 == GetList(fidx.by_retailer_state, k.rk)
    IN IF k.r_norm = <<>> \/ k.state = <<>>
       THEN [fac |-> <<>>, tier |-> "TBD", geosource |-> "MAPBOX"]
       ELSE IF c3 # <<>>
       THEN [fac |-> <<choose_best_facility(c3)>>, tier |-> "T3", geosource |-> "FACILITY"]
       ELSE IF k.a_norm # <<>> /\ k.c_norm # <<>> /\ k.zipc # <<>> /\ c1 # <<>>
       THEN [fac |-> <<choose_best_facility(c1)>>, tier |-> "T1", geosource |-> "FACILITY"]
       ELSE [fac |-> <<>>, tier |-> "TBD", geosource |-> "MAPBOX"]

\* T2 takes the first facility of the city instead of requiring exactly one
mutant_FacilityMatchFirstOfCity(k, fidx) ==
    LET c2 == GetList(fidx.by_city, k.ck)
        c1 == GetList(fidx.by_addr, k.ak)
        c3 == GetList(fidx.by_retailer_state, k.rk)
    IN IF k.r_norm = <<>> \/ k.state = <<>>
       THEN [fac |-> <<>>, tier |-> "TBD", geosource |-> "MAPBOX"]
       ELSE IF k.a_norm # <<>> /\ k.c_norm # <<>> /\ k.zipc # <<>> /\ c1 # <<>>
       THEN [fac |-> <<choose_best_facility(c1)>>, tier |-> "T1", geosource |-> "FACILITY"]
       ELSE IF k.c_norm # <<>> /\ k.zipc # <<>> /\ Len(c2) >= 1
       THEN [fac |-> <<c2[1]>>, tier |-> "T2", geosource |-> "FACILITY"]
       ELSE IF c3 # <<>>
       THEN [fac |-> <<choose_best_facility(c3)>>, tier |-> "T3", geosource |-> "FACILITY"]
       ELSE [fac |-> <<>>, tier |-> "TBD", geosource |-> "MAPBOX"]

\* facility enrichment: T1 on the address key, T2 on a city key with exactly one
\* facility, T3 on the retailer+state key
FacilityMatch(k, fidx) ==
    LET none == [fac |-> <<>>, tier |-> "TBD", geosource |-> "MAPBOX"]
        cands1 == GetList(fidx.by_addr, k.ak)
        m1 == IF k.a_norm # <<>> /\ k.c_norm # <<>> /\ k.zipc # <<>> /\ cands1 # <<>>
              THEN [fac |-> <<choose_best_facility(cands1)>>, tier |-> "T1",
                    geosource |-> "FACILITY"]
              ELSE none
        cands2 == GetList(fidx.by_city, k.ck)
        m2 == IF m1.fac = <<>> /\ k.c_norm # <<>> /\ k.zipc # <<>> /\ Len(cands2) = 1
              THEN [fac |-> <<cands2[1]>>, tier |-> "T2", geosource |-> "FACILITY"]
              ELSE m1
        cands3 == GetList(fidx.by_retailer_state, k.rk)
        m3 == IF m2.fac = <<>> /\ cands3 # <<>>
              THEN [fac |-> <<choose_best_facility(cands3)>>, tier |-> "T3",
                    geosource |-> "FACILITY"]
              ELSE m2
    IN IF k.r_norm # <<>> /\ k.state # <<>> THEN m3 ELSE none

\* props["GeoSource"] as set by the enrichment block, before any geocoding
GeoSourceOf(m, lonlat) ==
    IF m.fac # <<>> THEN m.geosource
    ELSE IF lonlat # NoLonLat THEN "KINGPIN_LATLONG" ELSE "MAPBOX"

\* the contact's own supplier text is always kept
mutant_SuppliersOf(f, m) == f.suppliers_raw

\* props["Suppliers"]: the facility's suppliers unless empty or "TBD"
SuppliersOf(f, m) ==
    IF m.fac # <<>>
       /\ canonical_suppliers(m.fac[1].suppliers) # <<>>
       /\ Upper(canonical_suppliers(m.fac[1].suppliers)) # <<"T","B","D">>
    THEN canonical_suppliers(m.fac[1].suppliers)
    ELSE f.suppliers_raw

\* every record is given the exact tier
mutant_PropsOf(f, a, m, lonlat) ==
    [Retailer |-> f.retailer_raw,
     Suppliers |-> SuppliersOf(f, m),
     ContactName |-> f.contact,
     ContactTitle |-> f.title,
     Title |-> f.title,
     Email |-> f.email,
     OfficePhone |-> f.office,
     CellPhone |-> f.cell,
     Address |-> a.addr_raw,
     City |-> a.city_raw,
     State |-> a.state,
     Zip |-> a.zipc,
     Category |-> IF m.fac # <<>> THEN TextOr(m.fac[1].category, CatAgronomy) ELSE CatAgronomy,
     FacilityName |-> IF m.fac # <<>> THEN m.fac[1].name ELSE <<>>,
     LongName |-> IF m.fac # <<>> THEN m.fac[1].longname ELSE <<>>,
     MatchTier |-> "T1",
     GeoSource |-> GeoSourceOf(m, lonlat)]
    @@ (IF a.fulladdr # <<>> THEN [FullAddress |-> a.fulladdr] ELSE <<>>)

\* props as built by the enrichment block; the key FullAddress is set only
\* for a row that has a full address
PropsOf(f, a, m, lonlat) ==
    [Retailer |-> f.retailer_raw,
     Suppliers |-> SuppliersOf(f, m),
     ContactName |-> f.contact,
     ContactTitle |-> f.title,
     Title |-> f.title,
     Email |-> f.email,
     OfficePhone |-> f.office,
     CellPhone |-> f.cell,
     Address |-> a.addr_raw,
     City |-> a.city_raw,
     State |-> a.state,
     Zip |-> a.zipc,
     Category |-> IF m.fac # <<>> THEN TextOr(m.fac[1].category, CatAgronomy) ELSE CatAgronomy,
     FacilityName |-> IF m.fac # <<>> THEN m.fac[1].name ELSE <<>>,
     LongName |-> IF m.fac # <<>> THEN m.fac[1].longname ELSE <<>>,
     MatchTier |-> IF m.fac # <<>> THEN m.tier ELSE "TBD",
     GeoSource |-> GeoSourceOf(m, lonlat)]
    @@ (IF a.fulladdr # <<>> THEN [FullAddress |-> a.fulladdr] ELSE <<>>)

\* the guard without the four field tests: enabled and a usable address
mutant_WantsGeocode(lonlat, enabled, a) ==
    lonlat = NoLonLat /\ enabled /\ a.address_ok

\* the guard of the optional Mapbox block
WantsGeocode(lonlat, enabled, a) ==
    /\ lonlat = NoLonLat
    /\ enabled
    /\ a.address_ok
    /\ a.addr_raw # <<>> /\ a.city_raw # <<>> /\ a.state # <<>> /\ a.zipc # <<>>

\* the cache is never read
mutant_CacheLookup(entries, ck_full) == NoLonLat

\* the cache read: a list of two floats that are a valid coordinate, or None
CacheLookup(entries, ck_full) ==
    IF ck_full \in DOMAIN entries /\ Len(entries[ck_full]) = 2
    THEN IF ~Floatable(entries[ck_full][1]) \/ ~Floatable(entries[ck_full][2]) THEN NoLonLat
         ELSE IF _is_valid_lonlat(entries[ck_full][1], entries[ck_full][2])
              THEN <<entries[ck_full][1], entries[ck_full][2]>>
              ELSE NoLonLat
    ELSE NoLonLat

\* the result of a call is not stored
mutant_CachePut(entries, ck_full, gl) == entries

\* the cache is replaced by the one new entry
mutant_CachePutAlone(entries, ck_full, gl) == [q \in {ck_full} |-> gl]

\* cache[ck_full] = [lon, lat]
CachePut(entries, ck_full, gl) ==
    [q \in DOMAIN entries \cup {ck_full} |-> IF q = ck_full THEN gl ELSE entries[q]]

(***************************************************************************)
(* The inputs of a run                                                     *)
(***************************************************************************)
\* public/data/retailers.geojson: the Point features
RetailersGeojson ==
    << Feature(<<"A","c","m","e"," ","C","o","o","p">>, <<"A","c","m","e"," ","A","m","e","s">>, <<"1"," ","M","a","i","n"," ","S","t">>,
            <<"A","m","e","s">>, <<"I","A">>, <<"5","0","0","1","0">>, <<"A","g","r","o","n","o","m","y">>,
            <<"B","A","S","F",";"," ","B","a","y","e","r">>, <<>>, Deg(-93, 60), Deg(42, 0)),
       Feature(<<"A","c","m","e"," ","C","o","o","p">>, <<"A","c","m","e"," ","H","Q">>, <<"2","2"," ","O","a","k"," ","R","d">>,
            <<"A","m","e","s">>, <<"i","a">>, <<"5","0","0","1","0">>, <<"C","o","r","p","o","r","a","t","e"," ","H","Q">>,
            <<"T","B","D">>, <<"A","c","m","e"," ","C","o","o","p","e","r","a","t","i","v","e">>, Deg(-93, 70), Deg(42, 10)),
       Feature(<<"A","c","m","e"," ","C","o","o","p">>, <<"A","c","m","e"," ","B","o","o","n","e">>, <<"5"," ","E","l","m"," ","S","t">>,
            <<"B","o","o","n","e">>, <<"I","A">>, <<"5","0","0","3","6">>, <<>>,
            <<>>, <<>>, Deg(-93, 90), Deg(42, 5)),
       Feature(<<"B","o","l","t"," ","I","n","c">>, <<"B","o","l","t">>, <<"7"," ","P","i","n","e"," ","A","v","e">>,
            <<"N","e","v","a","d","a">>, <<"I","A">>, <<"5","0","2","0","1">>, <<"G","r","a","i","n">>,
            <<"C","e","r","t","i","s">>, <<>>, Deg(-93, 45), Deg(42, 2)),
       Feature(<<"Z","e","d"," ","A","g">>, <<"Z","e","d">>, <<"3"," ","H","i","l","l"," ","R","d">>,
            <<"A","m","e","s">>, <<"I","A">>, <<"5","0","0","1","0">>, <<"A","g","r","o","n","o","m","y">>,
            <<>>, <<>>, Deg(-93, 65), Deg(91, 0)),
       Feature(<<"-">>, <<"D","a","s","h">>, <<"9"," ","L","o","w"," ","S","t">>,
            <<"A","m","e","s">>, <<"I","A">>, <<"5","0","0","1","0">>, <<"A","g","r","o","n","o","m","y">>,
            <<>>, <<>>, Deg(-93, 66), Deg(42, 6)) >>

\* data/kingpin_latlong.xlsx: the rows of the coordinate authority
LatlongRows ==
    << KRow(<<"A","c","m","e"," ","C","o","o","p">>, <<>>, <<"1"," ","M","a","i","n"," ","S","t">>, <<"A","m","e","s">>, <<"I","A">>, <<"5","0","0","1","0">>,
            <<>>, <<>>, <<>>, <<>>, Deg(42, 1), Deg(-93, 61)),
       KRow(<<"A","c","m","e"," ","C","o","o","p">>, <<>>, <<"8"," ","L","o","w"," ","S","t">>, <<"A","m","e","s">>, <<"I","A">>, <<"5","0","0","1","0">>,
            <<>>, <<>>, <<>>, <<>>, Deg(42, 3), Deg(-93, 62)),
       KRow(<<"B","o","l","t"," ","I","n","c">>, <<>>, <<"7"," ","P","i","n","e"," ","A","v","e">>, <<"N","e","v","a","d","a">>, <<"I","A">>, <<"5","0","2","0","1">>,
            <<>>, <<>>, <<>>, <<>>, Deg(42, 2), Fin(-934500000, 1)),
       KRow(<<"B","o","l","t"," ","I","n","c">>, <<>>, <<"7"," ","P","i","n","e"," ","A","v","e">>, <<"N","e","v","a","d","a">>, <<"I","A">>, <<"5","0","2","0","2">>,
            <<>>, <<>>, <<>>, <<>>, Deg(42, 2), Fin(-934500000, 5)),
       KRow(<<"C","o","r","n"," ","C","o">>, <<>>, <<"3"," ","A","s","h"," ","S","t">>, <<"S","t","o","r","y">>, <<"I","A">>, <<"5","0","2","4","8">>,
            <<>>, <<>>, <<>>, <<>>, Deg(40, 0), NaN),
       KRow(<<"E","d","e","n"," ","A","g">>, <<>>, <<"4"," ","E","l","m"," ","S","t">>, <<"H","u","x","l","e","y">>, <<"I","A">>, <<"5","0","1","2","4">>,
            <<>>, <<>>, <<>>, <<>>, Deg(41, 90), Deg(-93, 50)) >>

\* data/kingpin_COMBINED.xlsx: the rows a roster is made of
ContactRows ==
    { \* the blank row
      KRow(<<>>, <<>>, <<>>, <<>>, <<>>, <<>>,
            <<>>, <<>>, <<>>, <<>>, BlankCell, BlankCell),
      \* authoritative exact key, facility T1
      KRow(<<"A","C","M","E"," "," ","C","o","-","o","p">>, <<"A","l">>, <<"1"," ","M","a","i","n"," ","S","t","r","e","e","t",".">>, <<"A","m","e","s">>, <<"i","a">>, <<"5","0","0","1","0">>,
            <<>>, <<>>, <<"C","e","r","t","i","s">>, <<>>, BlankCell, BlankCell),
      \* no unique authoritative coordinate, facility T1 (the HQ)
      KRow(<<"A","c","m","e"," ","C","o","o","p">>, <<"B","o">>, <<"2","2"," ","O","a","k"," ","R","d">>, <<"A","m","e","s">>, <<"I","A">>, <<"5","0","0","1","0">>,
            <<>>, <<>>, <<"C","e","r","t","i","s",","," ","B","A","S","F">>, <<>>, BlankCell, BlankCell),
      \* two facilities in the city: T3
      KRow(<<"A","c","m","e"," ","C","o","o","p">>, <<"C","y">>, <<"9","9"," ","N","e","w"," ","S","t">>, <<"A","m","e","s">>, <<"I","A">>, <<"5","0","0","1","0">>,
            <<>>, <<>>, <<>>, <<>>, BlankCell, BlankCell),
      \* one facility in the city: T2
      KRow(<<"A","c","m","e"," ","C","o","o","p">>, <<"D","i">>, <<"7","7"," ","A","n","y"," ","S","t">>, <<"B","o","o","n","e">>, <<"I","A">>, <<"5","0","0","3","6">>,
            <<>>, <<>>, <<>>, <<>>, BlankCell, BlankCell),
      \* authoritative address-without-zip key
      KRow(<<"B","o","l","t"," ","I","n","c">>, <<"E","d">>, <<"7"," ","P","i","n","e"," ","A","v","e">>, <<"N","e","v","a","d","a">>, <<"I","A">>, <<"5","0","2","0","9">>,
            <<>>, <<>>, <<>>, <<>>, BlankCell, BlankCell),
      \* no authoritative row with a valid coordinate, no facility
      KRow(<<"C","o","r","n"," ","C","o">>, <<"F","l","o">>, <<"3"," ","A","s","h"," ","S","t">>, <<"S","t","o","r","y">>, <<"I","A">>, <<"5","0","2","4","8">>,
            <<>>, <<>>, <<>>, <<>>, BlankCell, BlankCell),
      \* the same query in another spelling
      KRow(<<"C","O","R","N"," ","C","O">>, <<"G","u","s">>, <<"3"," ","A","S","H"," "," ","S","T">>, <<"S","T","O","R","Y">>, <<"i","a">>, <<"5","0","2","4","8">>,
            <<>>, <<>>, <<>>, <<>>, BlankCell, BlankCell),
      \* no address, office phone with a listed area code
      KRow(<<"E","d","e","n"," ","A","g">>, <<"H","a","l">>, <<>>, <<>>, <<"I","A">>, <<>>,
            <<"(","5","1","5",")"," ","5","5","5","-","0","1","0","0">>, <<>>, <<>>, <<>>, BlankCell, BlankCell),
      \* no address, seven-digit phone
      KRow(<<"F","o","x"," ","L","L","C">>, <<"I","d","a">>, <<>>, <<>>, <<>>, <<>>,
            <<"5","5","5","-","0","1","0","0">>, <<>>, <<>>, <<>>, BlankCell, BlankCell),
      \* retailer that normalizes to nothing, at a facility's address
      KRow(<<"-">>, <<"J","o">>, <<"9"," ","L","o","w"," ","S","t">>, <<"A","m","e","s">>, <<"I","A">>, <<"5","0","0","1","0">>,
            <<>>, <<>>, <<>>, <<>>, BlankCell, BlankCell),
      \* no address and no phone
      KRow(<<"G","i","l"," ","C","o">>, <<"K","i","m">>, <<>>, <<"A","m","e","s">>, <<"I","A">>, <<>>,
            <<>>, <<>>, <<>>, <<>>, BlankCell, BlankCell),
      \* no address, cell phone whose area code has no valid center
      KRow(<<"H","a","y"," ","I","n","c">>, <<"L","e","e">>, <<>>, <<>>, <<>>, <<>>,
            <<>>, <<"1","-","7","1","2","-","5","5","5","-","0","1","0","0">>, <<>>, <<>>, BlankCell, BlankCell),
      \* free-form address only, at a facility's retailer and state
      KRow(<<"B","o","l","t"," ","I","n","c">>, <<"M","o">>, <<>>, <<>>, <<"I","A">>, <<>>,
            <<>>, <<>>, <<>>, <<"7"," ","P","i","n","e"," ","A","v","e",","," ","N","e","v","a","d","a"," ","I","A">>, BlankCell, BlankCell),
      \* street, city and state but no zip; no authoritative row, no facility
      KRow(<<"C","o","r","n"," ","C","o">>, <<"N","e","d">>, <<"3"," ","A","s","h"," ","S","t">>, <<"S","t","o","r","y">>, <<"I","A">>, <<>>,
            <<>>, <<>>, <<>>, <<>>, BlankCell, BlankCell),
      \* free-form address only; no authoritative row, no facility
      KRow(<<"C","o","r","n"," ","C","o">>, <<"O","n","a">>, <<>>, <<>>, <<"I","A">>, <<>>,
            <<>>, <<>>, <<>>, <<"3"," ","A","s","h"," ","S","t",","," ","S","t","o","r","y"," ","I","A">>, BlankCell, BlankCell),
      \* authoritative exact key, no facility
      KRow(<<"E","d","e","n"," ","A","g">>, <<"P","a","t">>, <<"4"," ","E","l","m"," ","S","t">>, <<"H","u","x","l","e","y">>, <<"I","A">>, <<"5","0","1","2","4">>,
            <<>>, <<>>, <<>>, <<>>, BlankCell, BlankCell) }

\* data/area_code_centers.csv: missing, or these rows (columns AreaCode, City,
\* State, Zip, LAT, LON)
AreaRow(ac, city, st0, zip, lat, lon) ==
    [AreaCode |-> ac, City |-> city, State |-> st0, Zip |-> zip, LAT |-> lat, LON |-> lon]

AreaCodeFiles ==
    { <<>>,
      << AreaRow(<<"5","1","5">>, <<"D","e","s"," ","M","o","i","n","e","s">>, <<"i","a">>, <<"5","0","3","0","9">>, Deg(41, 59), Deg(-93, 62)),
         AreaRow(<<"7","1","2">>, <<"S","i","o","u","x"," ","C","i","t","y">>, <<"I","A">>, <<"5","1","1","0","1">>, NaN, Deg(-96, 40)) >> }

\* the query of the two "Corn Co" rows, as cache_key_full writes it
CornQuery == <<"3"," ","a","s","h"," ","s","t",","," ","s","t","o","r","y",","," ","i","a"," ","5","0","2","4","8">>

\* the query of the "Corn Co" row without zip, of the row with a free-form
\* address only and of the "Eden Ag" row that the coordinate authority
\* resolves, as cache_key_full writes them
ZiplessQuery == <<"3"," ","a","s","h"," ","s","t",","," ","s","t","o","r","y",","," ","i","a">>

FreeFormQuery == <<","," ",","," ","i","a">>

EdenQuery == <<"4"," ","e","l","m"," ","s","t",","," ","h","u","x","l","e","y",","," ","i","a"," ","5","0","1","2","4">>

\* data/geocode-cache.json: empty, or one entry under CornQuery (a valid
\* coordinate, a latitude out of range, or a list of one number), or a valid
\* coordinate under each of the three other queries
DiskCaches ==
    { <<>>,
      [q \in {CornQuery} |-> <<Deg(-93, 30), Deg(41, 70)>>],
      [q \in {CornQuery} |-> <<Deg(-93, 30), Deg(95, 0)>>],
      [q \in {CornQuery} |-> <<Deg(-93, 30)>>],
      [q \in {ZiplessQuery, FreeFormQuery, EdenQuery} |-> <<Deg(-93, 30), Deg(41, 70)>>] }

\* what the geocoding service may answer to one request
Responses ==
    { Found(<<Deg(-93, 20), Deg(41, 80)>>),
      Found(<<Deg(-93, 20), Deg(95, 0)>>),
      Http(200),
      Http(401),
      Http(500),
      Malformed,
      Timeout }

FacilityIndexes == build_facility_indexes(load_retailers_geojson(RetailersGeojson))

CoordIndexes == build_coords_indexes(LatlongRows)

(***************************************************************************)
(* One pass of the row loop, as a value: what the body does with `row`     *)
(* when the service answers `resp` to the request the body may make.       *)
(***************************************************************************)
\* --geocode-sleep at its default (0.12): sleep_s > 0
geocode_sleep_positive == TRUE

\* --debug-geocode-failures at its default
debug_geocode_failures == 5

B2N(b) == IF b THEN 1 ELSE 0

NoProps == [Retailer |-> <<>>]

\* The part of the body that reads only the row and the loaded tables: the
\* fields, the remote-kingpin rule, the keys, the authoritative coordinate, the
\* facility match and props.
RowStatic(row, centers) ==
    CHOOSE s \in UNION { UNION { UNION { {
        [blank |-> is_blank_row(row),
         a |-> a,
         k |-> k,
         k0 |-> MatchingKeys(f.retailer_raw, f.addr_raw, f.city_raw, f.state, f.zipc),
         ll |-> ll,
         missing_min |-> ~has_min_required(f.retailer_raw, f.contact, a.addr_raw,
                                           a.city_raw, a.state, a.zipc),
         m |-> m,
         props |-> PropsOf(f, a, m, ll.lonlat),
         from_facility |-> m.fac # <<>> /\ ll.lonlat = NoLonLat,
         lonlat |-> IF m.fac # <<>> /\ ll.lonlat = NoLonLat
                    THEN <<m.fac[1].lon, m.fac[1].lat>> ELSE ll.lonlat,
         ck_full |-> cache_key_full(a.addr_raw, a.city_raw, a.state, a.zipc)] :
            ll \in { IF a.lonlat = NoLonLat THEN LatlongCoords(k, CoordIndexes)
                     ELSE [lonlat |-> a.lonlat, via |-> "none"] },
            m \in { FacilityMatch(k, FacilityIndexes) } } :
          k \in { MatchingKeys(f.retailer_raw, a.addr_raw, a.city_raw, a.state, a.zipc) } } :
        a \in { AreaCodePlacement(f, centers) } } :
      f \in { RowFields(row) } } : TRUE

\* RowStatic on every row of the pool, under every area-code table
RowStaticTable ==
    { [row |-> row, area_centers |-> load_area_code_centers(af),
       s |-> RowStatic(row, load_area_code_centers(af))] :
          row \in ContactRows, af \in AreaCodeFiles }

RowStaticOf(row, centers) ==
    (CHOOSE t \in RowStaticTable : t.row = row /\ t.area_centers = centers).s

RowResult(row, resp, centers, entries, enabled) ==
    CHOOSE res \in UNION { UNION { {
        LET a == s.a
            called == wanted /\ hit = NoLonLat
            geocoded == called /\ g.gl # NoLonLat
            lonlat == IF geocoded THEN g.gl ELSE IF hit # NoLonLat THEN hit ELSE s.lonlat
            dropped == s.blank \/ a.kind = "drop"
        IN [row |-> row,
            outcome |-> IF s.blank THEN "blank"
                        ELSE IF a.kind = "drop" THEN "no_address_no_phone"
                        ELSE IF lonlat = NoLonLat THEN "unmatched"
                        ELSE IF ~_is_valid_lonlat(lonlat[1], lonlat[2]) THEN "invalid_coords"
                        ELSE "enriched",
            address_ok |-> a.address_ok,
            ac |-> a.ac,
            k |-> s.k,
            k0 |-> s.k0,
            placed |-> ~dropped /\ a.kind = "placed",
            via |-> IF dropped THEN "none" ELSE s.ll.via,
            missing_min |-> ~dropped /\ s.missing_min,
            had_coords |-> ~dropped /\ s.ll.lonlat # NoLonLat,
            tier |-> IF dropped THEN "TBD" ELSE s.m.tier,
            fac |-> IF dropped THEN <<>> ELSE s.m.fac,
            from_facility |-> ~dropped /\ s.from_facility,
            wanted |-> ~dropped /\ wanted,
            ck_full |-> IF dropped THEN <<>> ELSE s.ck_full,
            cache_hit |-> ~dropped /\ hit # NoLonLat,
            called |-> ~dropped /\ called,
            geocoded |-> ~dropped /\ geocoded,
            status |-> IF ~dropped /\ called THEN g.status ELSE 0,
            reason |-> IF ~dropped /\ called THEN g.reason ELSE "",
            slept |-> ~dropped /\ called /\ g.slept,
            lonlat |-> IF dropped THEN NoLonLat ELSE lonlat,
            props |-> IF dropped THEN NoProps
                      ELSE IF geocoded THEN [s.props EXCEPT !.GeoSource = "MAPBOX"]
                      ELSE s.props,
            cache |-> IF ~dropped /\ geocoded THEN CachePut(entries, s.ck_full, g.gl)
                      ELSE entries] :
            hit \in { IF wanted THEN CacheLookup(entries, s.ck_full) ELSE NoLonLat } } :
          wanted \in { WantsGeocode(s.lonlat, enabled, s.a) },
          g \in { geocode_address_mapbox(resp, geocode_sleep_positive) } } :
        s \in { RowStaticOf(row, centers) } } : TRUE

\* the step of the body that produced the row's coordinate
SourceOf(r) ==
    IF r.lonlat = NoLonLat THEN "NONE"
    ELSE IF r.placed THEN "AREA_CODE"
    ELSE IF r.via # "none" THEN "KINGPIN_LATLONG"
    ELSE IF r.from_facility THEN "FACILITY"
    ELSE IF r.cache_hit THEN "CACHE"
    ELSE "MAPBOX"

\* fail_status_counts[k] = fail_status_counts.get(k, 0) + 1
CountStatus(counts, status) ==
    [s \in DOMAIN counts \cup {status} |->
        IF s = status THEN (IF s \in DOMAIN counts THEN counts[s] ELSE 0) + 1 ELSE counts[s]]

\* a geocoded row is counted as a cache hit as well
mutant_StatsAfterHits(counters, r) ==
    IF r.outcome = "blank" THEN [counters EXCEPT !.n_dropped_blank = @ + 1]
    ELSE IF r.outcome = "no_address_no_phone"
    THEN [counters EXCEPT !.n_dropped_no_address_no_phone = @ + 1]
    ELSE [counters EXCEPT
            !.n_area_code_assigned = @ + B2N(r.placed),
            !.n_coords_from_latlong_nozip = @ + B2N(r.via = "nozip"),
            !.n_coords_from_latlong_city = @ + B2N(r.via = "city"),
            !.n_coords_from_latlong_retailer_state = @ + B2N(r.via = "retailer_state"),
            !.n_coords_from_latlong = @ + B2N(r.via # "none"),
            !.n_rows_missing_min_fields = @ + B2N(r.missing_min),
            !.n_kept_due_to_coords = @ + B2N(r.missing_min /\ r.had_coords),
            !.n_missing_min_no_coords = @ + B2N(r.missing_min /\ ~r.had_coords),
            !.n_t1 = @ + B2N(r.fac # <<>> /\ r.tier = "T1"),
            !.n_t2 = @ + B2N(r.fac # <<>> /\ r.tier = "T2"),
            !.n_t3 = @ + B2N(r.fac # <<>> /\ r.tier = "T3"),
            !.n_tbd = @ + B2N(r.fac = <<>>),
            !.n_coords_from_facility = @ + B2N(r.from_facility),
            !.cache_hits = @ + B2N(r.cache_hit \/ r.geocoded),
            !.n_geocoded = @ + B2N(r.geocoded),
            !.cache_writes = @ + B2N(r.geocoded),
            !.n_geocode_failed = @ + B2N(r.called /\ ~r.geocoded),
            !.printed_failures =
                @ + B2N(r.called /\ ~r.geocoded /\ @ < debug_geocode_failures),
            !.n_dropped_invalid_coords_final = @ + B2N(r.outcome = "invalid_coords")]

\* a blank row is counted and then falls through to the no-address rule
mutant_StatsAfter(counters, r) ==
    IF r.outcome = "blank"
    THEN [counters EXCEPT !.n_dropped_blank = @ + 1, !.n_dropped_no_address_no_phone = @ + 1]
    ELSE IF r.outcome = "no_address_no_phone"
    THEN [counters EXCEPT !.n_dropped_no_address_no_phone = @ + 1]
    ELSE counters

\* the counters after the body has run with result r
StatsAfter(counters, r) ==
    IF r.outcome = "blank" THEN [counters EXCEPT !.n_dropped_blank = @ + 1]
    ELSE IF r.outcome = "no_address_no_phone"
    THEN [counters EXCEPT !.n_dropped_no_address_no_phone = @ + 1]
    ELSE [counters EXCEPT
            !.n_area_code_assigned = @ + B2N(r.placed),
            !.n_coords_from_latlong_nozip = @ + B2N(r.via = "nozip"),
            !.n_coords_from_latlong_city = @ + B2N(r.via = "city"),
            !.n_coords_from_latlong_retailer_state = @ + B2N(r.via = "retailer_state"),
            !.n_coords_from_latlong = @ + B2N(r.via # "none"),
            !.n_rows_missing_min_fields = @ + B2N(r.missing_min),
            !.n_kept_due_to_coords = @ + B2N(r.missing_min /\ r.had_coords),
            !.n_missing_min_no_coords = @ + B2N(r.missing_min /\ ~r.had_coords),
            !.n_t1 = @ + B2N(r.fac # <<>> /\ r.tier = "T1"),
            !.n_t2 = @ + B2N(r.fac # <<>> /\ r.tier = "T2"),
            !.n_t3 = @ + B2N(r.fac # <<>> /\ r.tier = "T3"),
            !.n_tbd = @ + B2N(r.fac = <<>>),
            !.n_coords_from_facility = @ + B2N(r.from_facility),
            !.cache_hits = @ + B2N(r.cache_hit),
            !.n_geocoded = @ + B2N(r.geocoded),
            !.cache_writes = @ + B2N(r.geocoded),
            !.n_geocode_failed = @ + B2N(r.called /\ ~r.geocoded),
            !.printed_failures =
                @ + B2N(r.called /\ ~r.geocoded /\ @ < debug_geocode_failures),
            !.n_dropped_invalid_coords_final = @ + B2N(r.outcome = "invalid_coords")]

\* str(x) of a float: the text of its repr
StrOfFloat(x) == [k |-> "repr", of |-> x.k, u |-> x.u, e |-> x.e]

\* float(s) in a try block: the float a repr text denotes, None when float() raises
FloatOfStr(s) == IF s.k = "repr" THEN [k |-> s.of, u |-> s.u, e |-> s.e] ELSE None

\* the "Build GeoJSON features" loop over enriched
RECURSIVE FeaturesOf(_)
FeaturesOf(rows) ==
    IF rows = <<>> THEN <<>>
    ELSE LET r == Head(rows)
             lon == FloatOfStr(r.Longitude)
             lat == FloatOfStr(r.Latitude)
         IN IF lon.k = "none" \/ lat.k = "none" THEN FeaturesOf(Tail(rows))
            ELSE IF ~_is_valid_lonlat(lon, lat) THEN FeaturesOf(Tail(rows))
            ELSE <<[coordinates |-> <<lon, lat>>, properties |-> r.props]>>
                 \o FeaturesOf(Tail(rows))

(***************************************************************************)
(* The run of main as a state machine                                      *)
(***************************************************************************)
\* the number of rows of the roster is at most MaxRows
MaxRows == 2

run_vars == <<pc, inputs_present, geocode_no_match, has_token, area_file, disk_cache,
              n_input_total, processed, area_centers, cache, st, fail_status_counts,
              enriched, unmatched, out, geoLog, last>>

\* the runs of the other scripts of the repository
script_vars == <<kingpin1_run, retailers_run, combine_run, kingpin_run, geojson_run>>

vars == <<run_vars, fn_call, fn_ret, script_vars>>

\* a script that is not run
NotRunning == [pc |-> "idle"]

\* the other scripts are not run, but for those named in running
ScriptsIdleExcept(running) ==
    /\ IF "geocode_kingpin1" \in running THEN TRUE ELSE kingpin1_run = NotRunning
    /\ IF "geocode_retailers" \in running THEN TRUE ELSE retailers_run = NotRunning
    /\ IF "combine_channel_partners" \in running THEN TRUE ELSE combine_run = NotRunning
    /\ IF "geocode_kingpin" \in running THEN TRUE ELSE kingpin_run = NotRunning
    /\ IF "convert_to_geojson" \in running THEN TRUE ELSE geojson_run = NotRunning

ZeroStats ==
    [n_dropped_blank |-> 0, n_rows_missing_min_fields |-> 0, n_kept_due_to_coords |-> 0,
     n_missing_min_no_coords |-> 0, n_t1 |-> 0, n_t2 |-> 0, n_t3 |-> 0, n_tbd |-> 0,
     n_coords_from_latlong |-> 0, n_coords_from_latlong_nozip |-> 0,
     n_coords_from_latlong_city |-> 0, n_coords_from_latlong_retailer_state |-> 0,
     n_coords_from_facility |-> 0, n_geocoded |-> 0, n_geocode_failed |-> 0,
     n_area_code_assigned |-> 0, n_dropped_no_address_no_phone |-> 0,
     n_dropped_invalid_coords_final |-> 0, cache_hits |-> 0, cache_writes |-> 0,
     printed_failures |-> 0]

NoRow == [outcome |-> "none"]

NothingWritten == [written |-> FALSE]

\* no function is applied on its own during a run of main
NoCall == [fn |-> "none"]

\* The token and the cache file matter only under --geocode-no-match; without
\* the flag the run is started with neither.
Init ==
    /\ pc = "start"
    /\ inputs_present \in BOOLEAN
    /\ geocode_no_match \in BOOLEAN
    /\ has_token \in (IF geocode_no_match THEN BOOLEAN ELSE {FALSE})
    /\ area_file \in AreaCodeFiles
    /\ disk_cache \in (IF geocode_no_match /\ has_token THEN DiskCaches ELSE {<<>>})
    /\ n_input_total \in 0..MaxRows
    /\ processed = 0
    /\ area_centers = <<>>
    /\ cache = <<>>
    /\ st = ZeroStats
    /\ fail_status_counts = <<>>
    /\ enriched = <<>>
    /\ unmatched = <<>>
    /\ out = NothingWritten
    /\ geoLog = <<>>
    /\ last = NoRow
    /\ fn_call = NoCall
    /\ fn_ret = NoCall
    /\ ScriptsIdleExcept({})

\* the credential is not looked at
mutant_Start ==
    /\ pc = "start"
    /\ \/ /\ ~inputs_present
          /\ pc' = "failed"
          /\ UNCHANGED <<area_centers, cache>>
       \/ /\ inputs_present
          /\ pc' = "loop"
          /\ area_centers' = load_area_code_centers(area_file)
          /\ cache' = IF geocode_no_match THEN disk_cache ELSE <<>>
    /\ UNCHANGED <<inputs_present, geocode_no_match, has_token, area_file, disk_cache,
                   n_input_total, processed, st, fail_status_counts, enriched,
                   unmatched, out, geoLog, last, fn_call, fn_ret, script_vars>>

\* main up to the loop: the existence checks, the loaders, the token, the cache
Start ==
    /\ pc = "start"
    /\ \/ /\ ~inputs_present
          /\ pc' = "failed"
          /\ UNCHANGED <<area_centers, cache>>
       \/ /\ inputs_present
          /\ geocode_no_match /\ ~has_token
          /\ pc' = "failed"
          /\ area_centers' = load_area_code_centers(area_file)
          /\ UNCHANGED cache
       \/ /\ inputs_present
          /\ ~(geocode_no_match /\ ~has_token)
          /\ pc' = "loop"
          /\ area_centers' = load_area_code_centers(area_file)
          /\ cache' = IF geocode_no_match THEN disk_cache ELSE <<>>
    /\ UNCHANGED <<inputs_present, geocode_no_match, has_token, area_file, disk_cache,
                   n_input_total, processed, st, fail_status_counts, enriched,
                   unmatched, out, geoLog, last, fn_call, fn_ret, script_vars>>

\* an exception raised by the remote call is not caught: the run ends there
mutant_Row ==
    /\ pc = "loop"
    /\ processed < n_input_total
    /\ \E row \in ContactRows :
         \E resp \in (IF RowResult(row, Timeout, area_centers, cache, geocode_no_match).called
                      THEN Responses ELSE {Timeout}) :
            \E r \in {RowResult(row, resp, area_centers, cache, geocode_no_match)} :
               /\ processed' = processed + 1
               /\ st' = StatsAfter(st, r)
               /\ fail_status_counts' = IF r.called /\ ~r.geocoded
                                        THEN CountStatus(fail_status_counts, r.status)
                                        ELSE fail_status_counts
               /\ cache' = r.cache
               /\ enriched' = IF r.outcome = "enriched"
                              THEN Append(enriched, [props |-> r.props,
                                                     Longitude |-> StrOfFloat(r.lonlat[1]),
                                                     Latitude |-> StrOfFloat(r.lonlat[2])])
                              ELSE enriched
               /\ unmatched' = IF r.outcome = "unmatched"
                               THEN Append(unmatched, r.props) ELSE unmatched
               /\ geoLog' = IF r.wanted
                            THEN Append(geoLog, [query |-> r.ck_full, cache_hit |-> r.cache_hit,
                                                 called |-> r.called, ok |-> r.geocoded,
                                                 status |-> r.status, reason |-> r.reason,
                                                 slept |-> r.slept])
                            ELSE geoLog
               /\ last' = [r EXCEPT !.cache = <<>>]
               /\ pc' = IF r.called /\ r.status = 0 THEN "failed" ELSE pc
    /\ UNCHANGED <<inputs_present, geocode_no_match, has_token, area_file, disk_cache,
                   n_input_total, area_centers, out, fn_call, fn_ret, script_vars>>

\* one iteration of "for row in raw_rows"
Row ==
    /\ pc = "loop"
    /\ processed < n_input_total
    /\ \E row \in ContactRows :
         \E resp \in (IF RowResult(row, Timeout, area_centers, cache, geocode_no_match).called
                      THEN Responses ELSE {Timeout}) :
            \E r \in {RowResult(row, resp, area_centers, cache, geocode_no_match)} :
               /\ processed' = processed + 1
               /\ st' = StatsAfter(st, r)
               /\ fail_status_counts' = IF r.called /\ ~r.geocoded
                                        THEN CountStatus(fail_status_counts, r.status)
                                        ELSE fail_status_counts
               /\ cache' = r.cache
               /\ enriched' = IF r.outcome = "enriched"
                              THEN Append(enriched, [props |-> r.props,
                                                     Longitude |-> StrOfFloat(r.lonlat[1]),
                                                     Latitude |-> StrOfFloat(r.lonlat[2])])
                              ELSE enriched
               /\ unmatched' = IF r.outcome = "unmatched"
                               THEN Append(unmatched, r.props) ELSE unmatched
               /\ geoLog' = IF r.wanted
                            THEN Append(geoLog, [query |-> r.ck_full, cache_hit |-> r.cache_hit,
                                                 called |-> r.called, ok |-> r.geocoded,
                                                 status |-> r.status, reason |-> r.reason,
                                                 slept |-> r.slept])
                            ELSE geoLog
               /\ last' = [r EXCEPT !.cache = <<>>]
    /\ UNCHANGED <<pc, inputs_present, geocode_no_match, has_token, area_file, disk_cache,
                   n_input_total, area_centers, out, fn_call, fn_ret, script_vars>>

\* the columns of kingpin_enriched.csv
enriched_fields ==
    <<"Retailer", "Suppliers", "ContactName", "ContactTitle", "Title", "Email",
      "OfficePhone", "CellPhone", "Address", "City", "State", "Zip", "Category",
      "FacilityName", "LongName", "MatchTier", "GeoSource", "Longitude", "Latitude",
      "FullAddress">>

\* the columns of kingpin_unmatched.csv
unmatched_fields ==
    <<"Retailer", "Suppliers", "ContactName", "ContactTitle", "Title", "Email",
      "OfficePhone", "CellPhone", "Address", "City", "State", "Zip", "Category",
      "FacilityName", "LongName", "MatchTier", "GeoSource", "FullAddress">>

\* write_csv(path, rows, fieldnames): the rows of the file.  csv.DictWriter
\* writes a key the row lacks as the empty text and, with
\* extrasaction="ignore", leaves out a key that is no column
write_csv(rows, fieldnames) ==
    [i \in 1..Len(rows) |->
        [k \in {fieldnames[j] : j \in 1..Len(fieldnames)} |->
            IF k \in DOMAIN rows[i] THEN rows[i][k] ELSE <<>>]]

\* the records of enriched as main appends them: {**props, "Longitude": ...,
\* "Latitude": ...}
EnrichedDicts(recs) ==
    [i \in 1..Len(recs) |->
        recs[i].props @@ [Longitude |-> recs[i].Longitude, Latitude |-> recs[i].Latitude]]

\* main after the loop: the two CSVs, the feature collection, the cache, the stats
Finish ==
    /\ pc = "loop"
    /\ processed = n_input_total
    /\ pc' = "done"
    /\ out' = [written |-> TRUE,
               enriched_csv |-> write_csv(EnrichedDicts(enriched), enriched_fields),
               unmatched_csv |-> write_csv(unmatched, unmatched_fields),
               features |-> FeaturesOf(enriched),
               stats |-> st,
               input_rows_total_including_blanks |-> n_input_total,
               output_features |-> Len(FeaturesOf(enriched)),
               cache_file |-> IF geocode_no_match /\ st.cache_writes > 0 THEN cache
                              ELSE disk_cache]
    /\ UNCHANGED <<inputs_present, geocode_no_match, has_token, area_file, disk_cache,
                   n_input_total, processed, area_centers, cache, st, fail_status_counts,
                   enriched, unmatched, geoLog, last, fn_call, fn_ret, script_vars>>

Next == Start \/ Row \/ Finish

Spec == Init /\ [][Next]_vars

\* main is one sequential thread and every step of it ends: the loaders and
\* writers are finite and the remote call returns or raises within its timeout
SpecLive == Spec /\ WF_vars(Next)

(***************************************************************************)
(* Properties of the run                                                   *)
(***************************************************************************)
\* the last row passed the two drop rules of the loop
LastKept == last.outcome \in {"enriched", "unmatched", "invalid_coords"}

\* a pair whose longitude or latitude is outside the final validity bounds
OutOfBounds(p) == ~(InDegrees(p[1], -180, 180) /\ InDegrees(p[2], -90, 90))

\* the five tallies a row can end in
FiveCounts ==
    <<Len(enriched), Len(unmatched), st.n_dropped_blank,
      st.n_dropped_no_address_no_phone, st.n_dropped_invalid_coords_final>>

\* C1: at every point of the run the resolved and unresolved rows and the three
\* drop counters add up to the rows read so far, at the end to the total of
\* input rows, and every row adds one to exactly one of the five tallies.
C1_CountersReconcile ==
    /\ [](/\ FiveCounts[1] + FiveCounts[2] + FiveCounts[3] + FiveCounts[4] + FiveCounts[5]
               = processed
          /\ out.written =>
               /\ processed = n_input_total
               /\ Len(out.enriched_csv) + Len(out.unmatched_csv) + out.stats.n_dropped_blank
                    + out.stats.n_dropped_no_address_no_phone
                    + out.stats.n_dropped_invalid_coords_final
                    = out.input_rows_total_including_blanks)
    /\ [][processed' # processed =>
            \E i \in 1..5 : FiveCounts' = [FiveCounts EXCEPT ![i] = @ + 1]]_vars

\* a finished run of two rows, one resolved and one dropped for lack of address
C1_Witness ==
    /\ out.written
    /\ n_input_total = 2
    /\ Len(out.enriched_csv) = 1
    /\ out.stats.n_dropped_no_address_no_phone = 1

\* C2: every feature written to the output carries a finite longitude within
\* [-180, 180] and a finite latitude within [-90, 90].
C2_FeaturesInBounds ==
    out.written =>
        \A i \in 1..Len(out.features) :
            /\ Len(out.features[i].coordinates) = 2
            /\ ~OutOfBounds(out.features[i].coordinates)

\* a finished run that wrote a feature and in which the service answered with a
\* latitude out of bounds
C2_Witness ==
    /\ out.written
    /\ Len(out.features) >= 1
    /\ \E i \in 1..Len(geoLog) : geoLog[i].called /\ geoLog[i].reason = "INVALID_COORDS"

\* which of the five lookups succeed on the keys k: exact, no-zip, city and
\* retailer+state in the authoritative table, then the facility match
LookupSucceeds(k) ==
    <<CoordsExact(k, CoordIndexes) # NoLonLat,
      CoordsNoZip(k, CoordIndexes) # NoLonLat,
      CoordsCity(k, CoordIndexes) # NoLonLat,
      CoordsRetailerState(k, CoordIndexes) # NoLonLat,
      FacilityMatch(k, FacilityIndexes).fac # <<>>>>

\* the place in the stated order of the source that gave the row its
\* coordinate: 1 exact, 2 no-zip, 3 city, 4 retailer+state, 5 facility,
\* 6 cache, 7 network, 8 area-code center; 0 when the row has no coordinate
SourceRank(r) ==
    IF SourceOf(r) = "NONE" THEN 0
    ELSE IF SourceOf(r) = "AREA_CODE" THEN 8
    ELSE IF r.via = "exact" THEN 1
    ELSE IF r.via = "nozip" THEN 2
    ELSE IF r.via = "city" THEN 3
    ELSE IF r.via = "retailer_state" THEN 4
    ELSE IF SourceOf(r) = "FACILITY" THEN 5
    ELSE IF SourceOf(r) = "CACHE" THEN 6
    ELSE 7

\* C3 as stated: the sources are tried in the order exact, no-zip, city,
\* retailer+state, facility, remote geocode, area-code center, so the source
\* that supplies a contact's coordinate is preceded only by sources that fail
\* for that contact.
C3_StatedOrder ==
    last.outcome = "enriched" =>
        \A i \in 1..5 : i < SourceRank(last) => ~LookupSucceeds(last.k0)[i]

\* C3 as the code has it: a contact without a usable address is placed on its
\* area-code center before any lookup and no other source is consulted; a
\* contact with a usable address goes through exact, no-zip, city,
\* retailer+state, facility, cache, network in that order and never reaches the
\* area-code center, and a later source supplies the coordinate only if every
\* earlier one failed.
C3_CodeOrder ==
    LastKept =>
        /\ ~last.address_ok => last.placed /\ SourceRank(last) = 8
        /\ last.address_ok =>
             /\ ~last.placed
             /\ SourceRank(last) \in 0..7
             /\ \A i \in 1..5 :
                   /\ (SourceRank(last) = 0 \/ i < SourceRank(last))
                        => ~LookupSucceeds(last.k)[i]
                   /\ SourceRank(last) = i => LookupSucceeds(last.k)[i]
             /\ SourceRank(last) \in {0, 7} => ~last.cache_hit
             /\ SourceRank(last) = 0 => ~last.geocoded

\* a contact placed on its area-code center although a lookup in the
\* authoritative table succeeds on its own keys
C3_Witness ==
    /\ LastKept
    /\ last.placed
    /\ \E i \in 1..4 : LookupSucceeds(last.k0)[i]

\* C4 as stated: a contact whose five-part key is present among the facility
\* address keys is matched at tier T1.
C4_StatedExactTier ==
    LastKept /\ last.k.ak \in DOMAIN FacilityIndexes.by_addr => last.tier = "T1"

\* C4 as the code has it: when the normalized retailer, address and city, the
\* state and the zip of the contact are all non-empty and the five-part key is
\* present among the facility address keys, the contact is matched at tier T1
\* to a facility of that key, whatever the city and retailer+state candidates.
C4_ExactTier ==
    (/\ LastKept
     /\ last.k.r_norm # <<>> /\ last.k.a_norm # <<>> /\ last.k.c_norm # <<>>
     /\ last.k.state # <<>> /\ last.k.zipc # <<>>
     /\ last.k.ak \in DOMAIN FacilityIndexes.by_addr)
    => /\ last.tier = "T1"
       /\ \E i \in 1..Len(FacilityIndexes.by_addr[last.k.ak]) :
             last.fac = <<FacilityIndexes.by_addr[last.k.ak][i]>>

\* a T1 match of a contact that also has several city candidates and several
\* retailer+state candidates
C4_Witness ==
    /\ LastKept
    /\ last.tier = "T1"
    /\ Len(GetList(FacilityIndexes.by_city, last.k.ck)) >= 2
    /\ Len(GetList(FacilityIndexes.by_retailer_state, last.k.rk)) >= 2

\* the last contact has no facility under its five-part key and two or more
\* under its city key
AmbiguousCity ==
    /\ LastKept
    /\ GetList(FacilityIndexes.by_addr, last.k.ak) = <<>>
    /\ Len(GetList(FacilityIndexes.by_city, last.k.ck)) >= 2

\* the facilities under the city key of the last contact
CityCandidates ==
    {GetList(FacilityIndexes.by_city, last.k.ck)[i] :
        i \in 1..Len(GetList(FacilityIndexes.by_city, last.k.ck))}

\* the facilities under the retailer+state key of the last contact
RetailerStateCandidates ==
    {GetList(FacilityIndexes.by_retailer_state, last.k.rk)[i] :
        i \in 1..Len(GetList(FacilityIndexes.by_retailer_state, last.k.rk))}

\* C5 as stated: without an exact match and with two or more facilities under
\* the city key the contact ends at T3 or TBD, never T2, and the matched
\* facility is never one of the ambiguous city candidates.
C5_StatedAmbiguousCity ==
    AmbiguousCity =>
        /\ last.tier \in {"T3", "TBD"}
        /\ last.fac # <<>> => last.fac[1] \notin CityCandidates

\* C5 as the code has it: without an exact match and with two or more
\* facilities under the city key the contact ends at T3 or TBD, never T2; at T3
\* the facility is the best-scoring one under the retailer+state key, which may
\* be one of the city candidates, and at TBD there is none.
C5_AmbiguousCity ==
    AmbiguousCity =>
        /\ last.tier \in {"T3", "TBD"}
        /\ last.tier = "T3" =>
             /\ last.fac # <<>>
             /\ last.fac[1] \in RetailerStateCandidates
             /\ \A c \in RetailerStateCandidates : ~ScoreGreater(score(c), score(last.fac[1]))
        /\ last.tier = "TBD" => last.fac = <<>>

\* a T3 match to a facility that is one of the ambiguous city candidates
C5_Witness ==
    /\ AmbiguousCity
    /\ last.tier = "T3"
    /\ last.fac[1] \in CityCandidates

\* the passes through the geocode block made for the query q
PassesFor(q) == {i \in 1..Len(geoLog) : geoLog[i].query = q}

\* the cache file holds a usable coordinate for q when the run starts
OnDisk(q) ==
    /\ q \in DOMAIN disk_cache
    /\ Len(disk_cache[q]) = 2
    /\ ~OutOfBounds(disk_cache[q])

\* C6 as stated: when two contacts reach the remote step with the same query,
\* exactly one network call is made for it, whatever the outcome of the first.
C6_StatedOneCall ==
    \A i \in 1..Len(geoLog) :
        Cardinality(PassesFor(geoLog[i].query)) >= 2 =>
            Cardinality({j \in PassesFor(geoLog[i].query) : geoLog[j].called}) = 1

\* C6 as the code has it: a pass through the remote step makes a network call
\* exactly when the cache file held no usable coordinate for the query at the
\* start and no earlier call for the same query succeeded; a failed call is not
\* remembered, so the next contact with the same query calls again.
C6_OneCallAfterSuccess ==
    \A j \in 1..Len(geoLog) :
        /\ geoLog[j].called <=>
              ~(\/ OnDisk(geoLog[j].query)
                \/ \E i \in 1..(j - 1) :
                      /\ geoLog[i].query = geoLog[j].query
                      /\ geoLog[i].called /\ geoLog[i].ok)
        /\ geoLog[j].cache_hit <=> ~geoLog[j].called

\* two contacts with the same query, the first call failed, the second contact
\* called again
C6_Witness ==
    /\ Len(geoLog) = 2
    /\ geoLog[1].query = geoLog[2].query
    /\ geoLog[1].called /\ ~geoLog[1].ok
    /\ geoLog[2].called

\* C7: after a network call answered with HTTP 401 no further network call is
\* made in the run.
C7_NoCallAfter401 ==
    \A i \in 1..Len(geoLog) :
        geoLog[i].called /\ geoLog[i].status = 401 =>
            \A j \in (i + 1)..Len(geoLog) : ~geoLog[j].called

\* the address keys of the authoritative rows that carry a coordinate which is
\* not a finite pair in bounds
InvalidRowKeys ==
    {EntryAddressKey([np |-> _norm_parts_for_coords(LatlongRows[i])]) :
        i \in {n \in 1..Len(LatlongRows) :
                  /\ _parse_float_maybe(LatlongRows[n].LAT).k # "none"
                  /\ _parse_float_maybe(LatlongRows[n].LON).k # "none"
                  /\ get_row_lonlat(LatlongRows[n]) = NoLonLat}}

\* the last contact was offered a coordinate out of bounds: by the service, by
\* the cache file on the first pass through the remote step, by the
\* authoritative row of its own address, or by the center of its area code
OfferedInvalid ==
    /\ last.outcome \notin {"none", "blank"}
    /\ \/ last.called /\ last.reason = "INVALID_COORDS"
       \/ /\ last.wanted /\ Len(geoLog) = 1
          /\ last.ck_full \in DOMAIN disk_cache
          /\ Len(disk_cache[last.ck_full]) = 2
          /\ OutOfBounds(disk_cache[last.ck_full])
       \/ last.k0.ak \in InvalidRowKeys
       \/ /\ ~last.address_ok
          /\ \E i \in 1..Len(area_file) :
                /\ area_file[i].AreaCode = last.ac
                /\ OutOfBounds(<<_parse_float_maybe(area_file[i].LON),
                                 _parse_float_maybe(area_file[i].LAT)>>)

\* C8 as stated: a contact that was offered a coordinate out of bounds is
\* dropped and counted in dropped_invalid_coords_final.
C8_StatedInvalidCounted ==
    OfferedInvalid => last.outcome = "invalid_coords"

\* What main does with such a coordinate, against C8: every source validates
\* before it offers (get_row_lonlat, load_retailers_geojson,
\* load_area_code_centers, the cache read, geocode_address_mapbox), so the
\* "FINAL HARD FILTER" of the loop is never entered and
\* dropped_invalid_coords_final stays zero; the contact goes on to the next
\* source and ends resolved with a coordinate in bounds, unresolved, or dropped
\* for lack of address.
C8_FinalFilterNeverFires ==
    /\ st.n_dropped_invalid_coords_final = 0
    /\ OfferedInvalid =>
         /\ last.outcome \in {"enriched", "unmatched", "no_address_no_phone"}
         /\ last.outcome = "enriched" => ~OutOfBounds(last.lonlat)
         /\ last.called /\ last.reason = "INVALID_COORDS" => last.outcome = "unmatched"

\* the service answered with a latitude out of bounds and the contact ended
\* unresolved, not counted in dropped_invalid_coords_final
C8_Witness ==
    /\ st.n_dropped_invalid_coords_final = 0
    /\ last.outcome = "unmatched"
    /\ last.called
    /\ last.reason = "INVALID_COORDS"

\* the coordinates of the authoritative rows under the key that the step via
\* looks up for the keys k
RowsSharingKey(via, k) ==
    IF via = "nozip" THEN GetList(CoordIndexes.idx_addr_nozip, k.anz)
    ELSE IF via = "city" THEN GetList(CoordIndexes.idx_city, k.ck)
    ELSE IF via = "retailer_state" THEN GetList(CoordIndexes.idx_retailer_st, k.rk)
    ELSE <<>>

\* C9 as stated: a coordinate from the no-zip, city or retailer+state lookup is
\* accepted only if all authoritative rows sharing the key carry the same
\* coordinate.
C9_StatedSameCoordinate ==
    LastKept /\ last.via \in {"nozip", "city", "retailer_state"} =>
        \A i, j \in 1..Len(RowsSharingKey(last.via, last.k)) :
            RowsSharingKey(last.via, last.k)[i] = RowsSharingKey(last.via, last.k)[j]

\* C9 as the code has it: a coordinate from the no-zip, city or retailer+state
\* lookup is accepted only if all authoritative rows with a coordinate in
\* bounds that share the key agree after rounding to seven decimals, and the
\* contact gets the rounded coordinate; if they disagree the step fails.
C9_SameAfterRounding ==
    LastKept =>
        /\ last.via \in {"nozip", "city", "retailer_state"} =>
             /\ RowsSharingKey(last.via, last.k) # <<>>
             /\ \A i \in 1..Len(RowsSharingKey(last.via, last.k)) :
                   <<Round7(RowsSharingKey(last.via, last.k)[i][1]),
                     Round7(RowsSharingKey(last.via, last.k)[i][2])>> = last.lonlat
        /\ \A s \in {"nozip", "city", "retailer_state"} :
             (\E i, j \in 1..Len(RowsSharingKey(s, last.k)) :
                 <<Round7(RowsSharingKey(s, last.k)[i][1]),
                   Round7(RowsSharingKey(s, last.k)[i][2])>>
                 # <<Round7(RowsSharingKey(s, last.k)[j][1]),
                     Round7(RowsSharingKey(s, last.k)[j][2])>>)
             => last.via # s

\* a no-zip coordinate accepted from rows whose coordinates differ before
\* rounding
C9_Witness ==
    /\ LastKept
    /\ last.via = "nozip"
    /\ \E i, j \in 1..Len(RowsSharingKey("nozip", last.k)) :
          RowsSharingKey("nozip", last.k)[i] # RowsSharingKey("nozip", last.k)[j]

\* C10: the GeoSource of a resolved contact names the step that produced its
\* coordinate: KINGPIN_LATLONG for the authoritative table, FACILITY for the
\* facility match, MAPBOX for the remote geocode, and none of the three for an
\* area-code center.
C10_GeoSourceNamesStep ==
    last.outcome = "enriched" =>
        /\ SourceOf(last) = "KINGPIN_LATLONG" => last.props.GeoSource = "KINGPIN_LATLONG"
        /\ SourceOf(last) = "FACILITY" => last.props.GeoSource = "FACILITY"
        /\ SourceOf(last) \in {"CACHE", "MAPBOX"} => last.props.GeoSource = "MAPBOX"
        /\ SourceOf(last) = "AREA_CODE" =>
              last.props.GeoSource \notin {"KINGPIN_LATLONG", "FACILITY", "MAPBOX"}

\* no source before the remote step gave the last contact a coordinate
UnresolvedBeforeGeocode ==
    /\ LastKept
    /\ ~last.placed
    /\ last.via = "none"
    /\ ~last.from_facility

\* C11 as stated: a contact that no earlier source resolved goes to the remote
\* step exactly when geocoding is enabled and its address is usable (street,
\* city and state all present, or a free-form full address present).
C11_StatedGeocodeGuard ==
    UnresolvedBeforeGeocode => (last.wanted <=> geocode_no_match /\ last.address_ok)

\* C11 as the code has it: a contact that no earlier source resolved goes to
\* the remote step exactly when geocoding is enabled and its street, city,
\* state and zip are all present; a usable address without a zip, or made of a
\* free-form full address only, is not geocoded.  The step reads the cache and
\* calls the network only on a miss; a contact resolved earlier never enters it.
C11_GeocodeGuard ==
    /\ UnresolvedBeforeGeocode =>
         /\ last.wanted <=>
               /\ geocode_no_match
               /\ last.props.Address # <<>> /\ last.props.City # <<>>
               /\ last.props.State # <<>> /\ last.props.Zip # <<>>
         /\ last.wanted => last.address_ok
    /\ LastKept /\ ~UnresolvedBeforeGeocode => ~last.wanted
    /\ LastKept => /\ last.called <=> (last.wanted /\ ~last.cache_hit)
                   /\ last.cache_hit => last.wanted

\* geocoding is enabled and an unresolved contact with a usable address but no
\* zip is left out of the remote step
C11_Witness ==
    /\ UnresolvedBeforeGeocode
    /\ geocode_no_match
    /\ last.address_ok
    /\ last.props.Zip = <<>>
    /\ ~last.wanted
    /\ last.outcome = "unmatched"

\* the cache holds a list of two numbers in bounds under the query q
HoldsValidEntry(entries, q) ==
    /\ q \in DOMAIN entries
    /\ Len(entries[q]) = 2
    /\ ~OutOfBounds(entries[q])

\* C12 as stated: when a contact with a usable address and no facility match is
\* processed with geocoding enabled and the cache already holds a valid entry
\* for its query string, the contact is resolved with the cached coordinate and
\* no network call is made for it.
C12_StatedCacheHit ==
    [][(/\ processed' = processed + 1
        /\ geocode_no_match
        /\ LastKept'
        /\ last'.address_ok
        /\ last'.fac = <<>>
        /\ HoldsValidEntry(cache, last'.ck_full))
       => /\ last'.outcome = "enriched"
          /\ last'.lonlat = <<cache[last'.ck_full][1], cache[last'.ck_full][2]>>
          /\ ~last'.called
          /\ last'.cache_hit
          /\ cache' = cache
          /\ Len(geoLog') = Len(geoLog) + 1
          /\ ~geoLog'[Len(geoLog')].called]_vars

\* the contact just processed was not resolved by the coordinate authority and
\* its street, city, state and zip are all present: the guard of the remote
\* step, for a contact with a usable address and no facility match
ReadsCache ==
    /\ last.via = "none"
    /\ last.props.Address # <<>> /\ last.props.City # <<>>
    /\ last.props.State # <<>> /\ last.props.Zip # <<>>

\* C12 as the code has it: for a contact with a usable address and no facility
\* match, processed with geocoding enabled while the cache holds a valid entry
\* for its query string, no network call is made and the cache is left as it
\* is. The contact is resolved with the cached coordinate exactly when the
\* coordinate authority did not resolve it and its street, city, state and zip
\* are all present. Otherwise the cache is not read: a contact that the
\* authority resolved keeps the coordinate of the authority, and a contact
\* whose address lacks the zip or is a free-form full address only ends
\* unresolved.
C12_CacheHitNoCall ==
    [][(/\ processed' = processed + 1
        /\ geocode_no_match
        /\ LastKept'
        /\ last'.address_ok
        /\ last'.fac = <<>>
        /\ HoldsValidEntry(cache, last'.ck_full))
       => /\ ~last'.called
          /\ cache' = cache
          /\ IF ReadsCache'
             THEN /\ last'.outcome = "enriched"
                  /\ last'.lonlat = <<cache[last'.ck_full][1], cache[last'.ck_full][2]>>
                  /\ last'.cache_hit
                  /\ Len(geoLog') = Len(geoLog) + 1
                  /\ ~geoLog'[Len(geoLog')].called
             ELSE /\ ~last'.wanted
                  /\ ~last'.cache_hit
                  /\ geoLog' = geoLog
                  /\ IF last'.via # "none"
                     THEN /\ last'.outcome = "enriched"
                          /\ last'.lonlat = LatlongCoords(last'.k, CoordIndexes).lonlat
                     ELSE last'.outcome = "unmatched"]_vars

\* the first contact of the run is resolved from the entry the cache file held
\* for its query, without a network call
C12_Witness ==
    /\ processed = 1
    /\ HoldsValidEntry(disk_cache, last.ck_full)
    /\ last.address_ok
    /\ last.fac = <<>>
    /\ ReadsCache
    /\ last.cache_hit
    /\ ~last.called
    /\ last.lonlat = <<disk_cache[last.ck_full][1], disk_cache[last.ck_full][2]>>

\* the cache file holds a valid entry for the query of the first contact, whose
\* usable address has no zip: the cache is not read and the contact ends
\* unresolved
C12_ZiplessNotRead ==
    /\ processed = 1
    /\ geocode_no_match
    /\ HoldsValidEntry(disk_cache, last.ck_full)
    /\ last.address_ok
    /\ last.fac = <<>>
    /\ last.props.Address # <<>> /\ last.props.Zip = <<>>
    /\ ~last.wanted
    /\ last.outcome = "unmatched"

\* the cache file holds a valid entry for the query of the first contact, which
\* the coordinate authority resolves: the contact has the coordinate of the
\* authority, not the cached one
C12_AuthorityNotRead ==
    /\ processed = 1
    /\ geocode_no_match
    /\ HoldsValidEntry(disk_cache, last.ck_full)
    /\ last.address_ok
    /\ last.fac = <<>>
    /\ last.via = "exact"
    /\ ~last.wanted
    /\ last.outcome = "enriched"
    /\ last.lonlat # <<disk_cache[last.ck_full][1], disk_cache[last.ck_full][2]>>

\* the last row is not blank, has no usable address and has a phone number
NoAddressButPhone ==
    /\ last.outcome \notin {"none", "blank"}
    /\ ~last.address_ok
    /\ (CleanWs(last.row.OfficePhone) # <<>> \/ CleanWs(last.row.CellPhone) # <<>>)

\* the centers loaded for the area code of the last row
CentersOfLast == {i \in 1..Len(area_centers) : area_centers[i].ac = last.ac}

\* C13: a contact with no usable address and a phone number whose area code is
\* not in the area-code table is dropped and counted under no-address-no-phone;
\* when the area code is in the table the contact is resolved with the center's
\* coordinate, city, state and zip, its Address is blank and its label is
\* "City Center, <city>, <state> <zip>".
C13_AreaCodeFallback ==
    /\ [](NoAddressButPhone =>
            /\ (last.ac = <<>> \/ CentersOfLast = {}) =>
                  last.outcome = "no_address_no_phone"
            /\ \A i \in CentersOfLast :
                  /\ last.outcome = "enriched"
                  /\ last.lonlat = <<area_centers[i].LON, area_centers[i].LAT>>
                  /\ last.props.City = area_centers[i].City
                  /\ last.props.State = area_centers[i].State
                  /\ last.props.Zip = area_centers[i].Zip
                  /\ last.props.Address = <<>>
                  /\ last.props.FullAddress =
                        <<"C","i","t","y"," ","C","e","n","t","e","r",","," ">>
                        \o area_centers[i].City \o <<",", " ">>
                        \o area_centers[i].State \o <<" ">> \o area_centers[i].Zip)
    /\ [][(processed' = processed + 1 /\ last'.outcome = "no_address_no_phone") =>
             /\ st'.n_dropped_no_address_no_phone = st.n_dropped_no_address_no_phone + 1
             /\ enriched' = enriched
             /\ unmatched' = unmatched]_vars

\* a contact without address placed on the center of area code 515
C13_Witness ==
    /\ NoAddressButPhone
    /\ last.ac = <<"5","1","5">>
    /\ last.outcome = "enriched"
    /\ last.props.FullAddress =
          <<"C","i","t","y"," ","C","e","n","t","e","r",","," ","D","e","s"," ",
            "M","o","i","n","e","s",","," ","I","A"," ","5","0","3","0","9">>

(***************************************************************************)
(* Functions applied on their own                                          *)
(***************************************************************************)
\* digits_only of geocode_kingpin.py
geocode_kingpin_digits_only(s) == SelectSeq(s, IsDigit)

\* one pass of the loop of geocode_kingpin.extract_area_code: the area code
\* the column gives, or nothing (the loop goes on)
geocode_kingpin_AreaCodeOf(raw) ==
    LET d == geocode_kingpin_digits_only(raw)
    IN IF Len(d) >= 10 THEN SubSeq(d, 1, 3)
       ELSE IF Len(d) >= 7 THEN <<>>
       ELSE IF Len(d) = 3 THEN d
       ELSE <<>>

\* extract_area_code of geocode_kingpin.py on the columns OFFICE PHONE and
\* CELL PHONE of a row
geocode_kingpin_extract_area_code(office_phone, cell_phone) ==
    IF geocode_kingpin_AreaCodeOf(office_phone) # <<>>
    THEN geocode_kingpin_AreaCodeOf(office_phone)
    ELSE geocode_kingpin_AreaCodeOf(cell_phone)

\* phone cells: empty, the usual US spellings with and without the country
\* code, a number with an extension, numbers too short for an area code, and
\* a number led by a superscript digit (a digit to str.isdigit, not to \D)
Phones ==
    { <<>>,
      <<"(","5","1","5",")"," ","5","5","5","-","0","1","0","0">>,
      <<"1","-","7","1","2","-","5","5","5","-","0","1","0","0">>,
      <<"+","1"," ","(","5","1","5",")"," ","5","5","5","-","0","1","0","0">>,
      <<"5","5","5","-","0","1","0","0">>,
      <<"5","1","5">>,
      <<"²","5","1","5","5","5","5","0","1","0","0">>,
      <<"5","1","5","5","5","5","0","1","0","0"," ","x","1","2">>,
      <<"7","1","2",".","5","5","5",".","0","1","0","0">>,
      <<"1"," ","5","1","5"," ","5","5","5">> }

\* the field normalizers
Normalizers ==
    {"normalize_retailer", "normalize_address", "normalize_city", "normalize_state",
     "normalize_zip", "canonical_suppliers", "canonicalize_category"}

\* cells of the spreadsheet columns the normalizers are applied to: retailer
\* names, addresses, cities, states, zips, supplier lists and categories, one
\* of them with an accented capital and a trailing carriage return
Texts ==
    { <<>>,
      <<"A","c","m","e"," ","C","o","o","p">>,
      <<"C","a","f","É"," ","C","o","o","p","\r">>,
      <<"S","m","i","t","h"," ","C","o","m","p","a","n","y">>,
      <<"A","B","C"," ","C","o","o","p","e","r","a","t","i","v","e"," ","-"," ","I","A">>,
      <<"a","b","c"," ","c","o","-","o","p">>,
      <<"C","o","-","o","p"," ","o","f"," ","A","m","e","s"," ","-"," ","i","a">>,
      <<"A","c","m","e"," ","&"," ","S","o","n","s",","," ","I","n","c",".">>,
      <<"1","0","0"," ","M","a","i","n"," ","S","t",".">>,
      <<"1"," ","F","i","r","s","t"," ","A","v","e">>,
      <<"S","t","."," ","P","a","u","l">>,
      <<" ","i","a"," ">>,
      <<"5","0","0","1","0"," ">>,
      <<"B","A","S","F",";"," ","B","a","y","e","r",",",","," ","C","e","r","t","i","s">>,
      <<"C","o","r","p","o","r","a","t","e"," ","H","Q">>,
      <<"n","a","n",","," ","S","e","e","d">>,
      <<"G","r","a","i","n"," ","&"," ","F","e","e","d">>,
      <<"F","o","o",","," ","B","a","r">> }

\* a retailer name written with the words before and after a synonym, in
\* upper or lower case, with or without a trailing state suffix
RetailerName(before, synonym, after, upper, suffix) ==
    (IF upper THEN Upper(before \o synonym \o after) ELSE Lower(before \o synonym \o after))
    \o suffix

CooperativeSynonyms == {<<"c","o","-","o","p">>, <<"c","o","o","p">>, <<"c","o","o","p","e","r","a","t","i","v","e">>}

IncorporatedSynonyms == {<<"i","n","c">>, <<"i","n","c","o","r","p","o","r","a","t","e","d">>}

StateSuffixes == {<<>>, <<" ","-"," ","I","A">>}

\* the spellings of one retailer name: the same words around a synonym of one
\* kind, any case, any state suffix
Spellings(before, synonyms, after) ==
    {RetailerName(before, s, after, up, x) : s \in synonyms, up \in BOOLEAN, x \in StateSuffixes}

\* pairs of spellings of the same retailer name
RetailerPairs ==
    UNION {Spellings(<<"a","b","c"," ">>, CooperativeSynonyms, <<>>) \X Spellings(<<"a","b","c"," ">>, CooperativeSynonyms, <<>>),
           Spellings(<<>>, CooperativeSynonyms, <<" ","o","f"," ","a","m","e","s">>)
               \X Spellings(<<>>, CooperativeSynonyms, <<" ","o","f"," ","a","m","e","s">>),
           Spellings(<<"a","c","m","e"," ">>, IncorporatedSynonyms, <<>>)
               \X Spellings(<<"a","c","m","e"," ">>, IncorporatedSynonyms, <<>>)}

\* the longest candidate list explored
MaxCands == 3

\* facilities a match can offer: those loaded from retailers.geojson and one
\* more of the same category, address length and name length as the first
CandidateFacilities ==
    LET loaded == load_retailers_geojson(RetailersGeojson)
        west == FacilityOf(Feature(<<"A","c","m","e"," ","C","o","o","p">>, <<"A","c","m","e"," ","W","e","s","t">>, <<"2"," ","M","a","i","n"," ","S","t">>, <<"A","m","e","s">>, <<"I","A">>, <<"5","0","0","1","0">>, <<"A","g","r","o","n","o","m","y">>, <<>>, <<>>,
                                   Deg(-93, 63), Deg(42, 4)))
    IN {loaded[i] : i \in 1..Len(loaded)} \cup {west}

\* the non-empty candidate lists
CandidateLists == UNION {[1..n -> CandidateFacilities] : n \in 1..MaxCands}

\* the applications of a function to an argument that are explored
Calls ==
    UNION {{[fn |-> "extract_area_code", arg |-> <<o, c>>] : o \in Phones, c \in Phones},
           {[fn |-> f, arg |-> x] : f \in Normalizers, x \in Texts},
           {[fn |-> "normalize_retailer_pair", arg |-> pr] : pr \in RetailerPairs},
           {[fn |-> "choose_best_facility", arg |-> cands] : cands \in CandidateLists}}

\* the run of main does not take place while a function is applied on its own
NoRun ==
    /\ pc = "idle"
    /\ inputs_present = FALSE
    /\ geocode_no_match = FALSE
    /\ has_token = FALSE
    /\ area_file = <<>>
    /\ disk_cache = <<>>
    /\ n_input_total = 0
    /\ processed = 0
    /\ area_centers = <<>>
    /\ cache = <<>>
    /\ st = ZeroStats
    /\ fail_status_counts = <<>>
    /\ enriched = <<>>
    /\ unmatched = <<>>
    /\ out = NothingWritten
    /\ geoLog = <<>>
    /\ last = NoRow

FunctionsInit ==
    /\ NoRun
    /\ fn_call \in Calls
    /\ fn_ret = NoCall
    /\ ScriptsIdleExcept({})

\* both extract_area_code functions on the same pair of phone cells
ExtractAreaCode ==
    /\ fn_call.fn = "extract_area_code"
    /\ fn_ret = NoCall
    /\ fn_ret' = [fn |-> fn_call.fn,
                  convert_to_geojson_kingpin |->
                      extract_area_code(fn_call.arg[1], fn_call.arg[2]),
                  geocode_kingpin |->
                      geocode_kingpin_extract_area_code(fn_call.arg[1], fn_call.arg[2])]
    /\ UNCHANGED <<run_vars, fn_call, script_vars>>

\* the record of a normalizer applied to a cell (once) and again to its own
\* result (twice)
ApplyTwice(name, once, twice) ==
    /\ fn_call.fn = name
    /\ fn_ret = NoCall
    /\ fn_ret' = [fn |-> name, once |-> once, twice |-> twice]
    /\ UNCHANGED <<run_vars, fn_call, script_vars>>

NormalizeRetailer ==
    ApplyTwice("normalize_retailer", normalize_retailer(fn_call.arg), normalize_retailer(normalize_retailer(fn_call.arg)))

NormalizeAddress ==
    ApplyTwice("normalize_address", normalize_address(fn_call.arg), normalize_address(normalize_address(fn_call.arg)))

NormalizeCity ==
    ApplyTwice("normalize_city", normalize_city(fn_call.arg), normalize_city(normalize_city(fn_call.arg)))

NormalizeState ==
    ApplyTwice("normalize_state", normalize_state(fn_call.arg), normalize_state(normalize_state(fn_call.arg)))

NormalizeZip ==
    ApplyTwice("normalize_zip", normalize_zip(fn_call.arg), normalize_zip(normalize_zip(fn_call.arg)))

CanonicalSuppliers ==
    ApplyTwice("canonical_suppliers", canonical_suppliers(fn_call.arg), canonical_suppliers(canonical_suppliers(fn_call.arg)))

CanonicalizeCategory ==
    ApplyTwice("canonicalize_category", canonicalize_category(fn_call.arg), canonicalize_category(canonicalize_category(fn_call.arg)))

\* normalize_retailer on two spellings of a name
NormalizeRetailerPair ==
    /\ fn_call.fn = "normalize_retailer_pair"
    /\ fn_ret = NoCall
    /\ fn_ret' = [fn |-> fn_call.fn,
                  left |-> normalize_retailer(fn_call.arg[1]),
                  right |-> normalize_retailer(fn_call.arg[2])]
    /\ UNCHANGED <<run_vars, fn_call, script_vars>>

\* choose_best_facility on a candidate list
ChooseBestFacility ==
    /\ fn_call.fn = "choose_best_facility"
    /\ fn_ret = NoCall
    /\ fn_ret' = [fn |-> fn_call.fn, best |-> choose_best_facility(fn_call.arg)]
    /\ UNCHANGED <<run_vars, fn_call, script_vars>>

FunctionsNext ==
    \/ ExtractAreaCode
    \/ NormalizeRetailer
    \/ NormalizeAddress
    \/ NormalizeCity
    \/ NormalizeState
    \/ NormalizeZip
    \/ CanonicalSuppliers
    \/ CanonicalizeCategory
    \/ NormalizeRetailerPair
    \/ ChooseBestFacility

SpecFunctions == FunctionsInit /\ [][FunctionsNext]_vars

(***************************************************************************)
(* Properties of the functions                                             *)
(***************************************************************************)
\* the digits of a phone cell without a leading country code: the 1 in front
\* of ten digits
NationalDigits(phone) ==
    IF Len(SelectSeq(phone, IsDigit)) = 11 /\ SelectSeq(phone, IsDigit)[1] = "1"
    THEN Tail(SelectSeq(phone, IsDigit))
    ELSE SelectSeq(phone, IsDigit)

\* the area code of a phone cell as stated: the first three digits of a full
\* number, nothing for a number without area code
StatedAreaCode(phone) ==
    IF Len(NationalDigits(phone)) >= 10 THEN SubSeq(NationalDigits(phone), 1, 3) ELSE <<>>

\* the area code the statement gives for a pair of phone cells, where it gives
\* one: the office phone's when that is a full number, the cell phone's when
\* the office phone has no area code and the cell phone is a full number.  An
\* office cell of exactly three digits is left aside, the statement does not
\* say whether it is a number or an area code.
StatedExtract(office_phone, cell_phone) ==
    IF StatedAreaCode(office_phone) # <<>> THEN {StatedAreaCode(office_phone)}
    ELSE IF Len(SelectSeq(office_phone, IsDigit)) = 3 THEN {}
    ELSE {StatedAreaCode(cell_phone)}

\* C14: both extract_area_code functions return the first three digits of the
\* number after a leading country code is stripped, from the office phone
\* first and from the cell phone only when the office phone gives no area code.
C14_BothExtractors ==
    fn_ret.fn = "extract_area_code" =>
        \A code \in StatedExtract(fn_call.arg[1], fn_call.arg[2]) :
            /\ Len(code) = 3 => fn_ret.convert_to_geojson_kingpin = code
            /\ Len(code) = 3 => fn_ret.geocode_kingpin = code

\* C15: every field normalizer is idempotent: applied to its own result it
\* returns that result.
C15_NormalizersIdempotent ==
    fn_ret.fn \in Normalizers => fn_ret.twice = fn_ret.once

\* C16: normalize_retailer gives the same key to two names that differ only in
\* letter case, in a trailing " - XX" state suffix and in the cooperative or
\* incorporated synonym they use, wherever the synonym stands in the name.
C16_SynonymsSameKey ==
    fn_ret.fn = "normalize_retailer_pair" => fn_ret.left = fn_ret.right

IsCorporateHQ(f) == Lower(f.category) = <<"c","o","r","p","o","r","a","t","e"," ","h","q">>

LongerName(f) == IF Len(f.name) >= Len(f.longname) THEN Len(f.name) ELSE Len(f.longname)

\* facility a comes before facility b in the stated order: Corporate HQ first,
\* then the longer address, then the longer of name and long name
Outranks(a, b) ==
    \/ IsCorporateHQ(a) /\ ~IsCorporateHQ(b)
    \/ /\ IsCorporateHQ(a) = IsCorporateHQ(b)
       /\ \/ Len(a.address_raw) > Len(b.address_raw)
          \/ /\ Len(a.address_raw) = Len(b.address_raw)
             /\ LongerName(a) > LongerName(b)

\* the positions of a candidate list that no candidate outranks
TopPositions(cands) ==
    {i \in 1..Len(cands) : \A j \in 1..Len(cands) : ~Outranks(cands[j], cands[i])}

\* C17: choose_best_facility returns one facility of the candidate list that
\* no candidate outranks under (Corporate HQ, address length, longer of name
\* and long name), and the list determines the winner: it is the first of
\* the list's candidates that none outranks.
C17_BestFacility ==
    fn_ret.fn = "choose_best_facility" =>
        /\ \E i \in TopPositions(fn_call.arg) : fn_ret.best = fn_call.arg[i]
        /\ \A i \in TopPositions(fn_call.arg) :
               (\A j \in TopPositions(fn_call.arg) : i <= j) => fn_ret.best = fn_call.arg[i]

\* three candidates, the first outranked, the other two distinct and level:
\* the second is returned
C17_Witness ==
    /\ fn_ret.fn = "choose_best_facility"
    /\ Len(fn_call.arg) = 3
    /\ TopPositions(fn_call.arg) = {2, 3}
    /\ fn_call.arg[2] # fn_call.arg[3]
    /\ fn_ret.best = fn_call.arg[2]

\* the last row passed the blank rule and the no-address/no-phone rule and
\* ended the resolution chain with no coordinate
LastEndsUnresolved == LastKept /\ last.lonlat = NoLonLat

\* C18: a contact that passes the blank and no-address/no-phone rules and ends
\* the resolution chain with no coordinate is appended to the unresolved
\* records with its match tier and its enrichment fields, no drop counter
\* moves for it, and the unresolved records are written in the order they were
\* collected, each with every field it carries.
C18_UnresolvedKept ==
    /\ [](pc = "done" =>
            /\ Len(out.unmatched_csv) = Len(unmatched)
            /\ \A i \in 1..Len(unmatched) : \A k \in DOMAIN unmatched[i] :
                  out.unmatched_csv[i][k] = unmatched[i][k])
    /\ [][(processed' = processed + 1 /\ LastEndsUnresolved') =>
            /\ last'.outcome = "unmatched"
            /\ unmatched' = Append(unmatched, last'.props)
            /\ enriched' = enriched
            /\ last'.props.MatchTier = last'.tier
            /\ {"MatchTier", "GeoSource", "Category", "FacilityName", "LongName",
                "Suppliers"} \subseteq DOMAIN last'.props
            /\ st'.n_dropped_blank = st.n_dropped_blank
            /\ st'.n_dropped_no_address_no_phone = st.n_dropped_no_address_no_phone
            /\ st'.n_dropped_invalid_coords_final = st.n_dropped_invalid_coords_final]_vars
    /\ [][pc = "loop" =>
            \A i \in 1..Len(unmatched) : i <= Len(unmatched') /\ unmatched'[i] = unmatched[i]]_vars

\* a run that ended after a failed remote lookup: the contact is the last of
\* the unresolved records written
C18_Witness ==
    /\ pc = "done"
    /\ LastEndsUnresolved
    /\ last.called
    /\ Len(out.unmatched_csv) > 0
    /\ \A k \in DOMAIN last.props :
          out.unmatched_csv[Len(out.unmatched_csv)][k] = last.props[k]
    /\ last.props.MatchTier = "TBD"

\* geocoding is requested and no credential can be resolved
NoCredential == geocode_no_match /\ ~has_token

\* C20: when remote geocoding is requested and no credential can be resolved,
\* the run ends in failure from its start, before any contact row is
\* processed, and nothing is written: no feature collection, no audit table,
\* no statistics, no cache.
C20_AbortWithoutCredential ==
    /\ [](NoCredential =>
            /\ pc \in {"start", "failed"}
            /\ processed = 0
            /\ out = NothingWritten
            /\ enriched = <<>> /\ unmatched = <<>> /\ geoLog = <<>>
            /\ st = ZeroStats
            /\ cache = <<>>)
    /\ [][(NoCredential /\ pc = "start") => pc' = "failed"]_vars
    /\ [][pc = "failed" => pc' = "failed"]_vars

\* a run with every input present and rows to process that failed for want
\* of a credential
C20_Witness ==
    /\ pc = "failed"
    /\ NoCredential
    /\ inputs_present
    /\ n_input_total > 0
    /\ processed = 0
    /\ out = NothingWritten

\* C21: a run that starts with its inputs present and, when geocoding is
\* requested, a credential, eventually ends with every row of the roster
\* processed and its statistics written, whatever each row's outcome was.
C21_RunCompletes ==
    (pc = "start" /\ inputs_present /\ ~NoCredential) ~>
        (/\ pc = "done"
         /\ processed = n_input_total
         /\ out.written
         /\ out.stats = st
         /\ out.input_rows_total_including_blanks = n_input_total)

\* a completed run whose last remote call raised or returned a body that is
\* not JSON, counted as a failed geocode in the statistics written
C21_Witness ==
    /\ pc = "done"
    /\ out.written
    /\ LastKept
    /\ last.called
    /\ last.status = 0
    /\ out.stats.n_geocode_failed > 0

\* the passes through the remote step that made a network call
CallPasses == {i \in 1..Len(geoLog) : geoLog[i].called}

\* C22: between two consecutive remote calls of a run the fixed delay is
\* applied, whether the earlier call succeeded or failed: every call that is
\* followed by another call of the run was followed by the delay.
C22_DelayBetweenCalls ==
    \A i \in CallPasses :
        (\E j \in CallPasses : j > i) => geoLog[i].slept

\* the record emitted for the last row, when it was kept with valid or no
\* coordinates: the last of the resolved or of the unresolved records
LastEmitted ==
    IF last.outcome = "enriched" THEN enriched[Len(enriched)].props
    ELSE unmatched[Len(unmatched)]

\* the last row was matched to a facility whose supplier string is neither
\* empty nor "TBD"
FacilityNamesSuppliers ==
    /\ last.fac # <<>>
    /\ last.fac[1].suppliers # <<>>
    /\ Upper(last.fac[1].suppliers) # <<"T","B","D">>

\* C23: the record emitted for a contact matched to a facility whose supplier
\* string is non-empty and not "TBD" carries the facility's supplier string;
\* the record of any other contact (no match, or facility suppliers empty or
\* "TBD") carries the contact's own canonicalized supplier text.
C23_SuppliersOverride ==
    last.outcome \in {"enriched", "unmatched"} =>
        LastEmitted.Suppliers =
            IF FacilityNamesSuppliers THEN last.fac[1].suppliers
            ELSE canonical_suppliers(last.row.Suppliers)

\* a contact with supplier text of its own, matched to a facility that names
\* other suppliers: the facility's are emitted
C23_Witness ==
    /\ last.outcome = "enriched"
    /\ FacilityNamesSuppliers
    /\ canonical_suppliers(last.row.Suppliers) # <<>>
    /\ canonical_suppliers(last.row.Suppliers) # last.fac[1].suppliers
    /\ LastEmitted.Suppliers = last.fac[1].suppliers

(***************************************************************************)
(* geocode_kingpin1.py: the script from the row loop on (the token file,   *)
(* the workbook and its required columns were found).  A cell of the data  *)
(* frame is text or NaN (an empty cell).                                   *)
(***************************************************************************)
\* a text cell of the data frame
Txt(s) == [nan |-> FALSE, s |-> s]

\* an empty cell of the data frame
NaNCell == [nan |-> TRUE, s |-> <<>>]

\* str(cell), as the f-strings apply it
StrOfCell(c) == IF c.nan THEN <<"n","a","n">> ELSE c.s

\* pd.notna(v) and str(v).strip()
NotBlankCell(c) == ~c.nan /\ Strip(c.s) # <<>>

\* STATE_CENTROIDS.get(state): (lat, lon) or None
STATE_CENTROIDS(state) ==
    IF state.nan THEN <<>>
    ELSE IF state.s = <<"I","A">> THEN <<Fin(420751000, 0), Fin(-934960000, 0)>>
    ELSE IF state.s = <<"M","N">> THEN <<Fin(463160000, 0), Fin(-942000000, 0)>>
    ELSE IF state.s = <<"N","E">> THEN <<Fin(415378000, 0), Fin(-997951000, 0)>>
    ELSE IF state.s = <<"S","D">> THEN <<Fin(442998000, 0), Fin(-994388000, 0)>>
    ELSE IF state.s = <<"N","D">> THEN <<Fin(475289000, 0), Fin(-997840000, 0)>>
    ELSE IF state.s = <<"I","L">> THEN <<Fin(400000000, 0), Fin(-890000000, 0)>>
    ELSE IF state.s = <<"W","I">> THEN <<Fin(445000000, 0), Fin(-895000000, 0)>>
    ELSE IF state.s = <<"M","O">> THEN <<Fin(384500000, 0), Fin(-923500000, 0)>>
    ELSE IF state.s = <<"I","N">> THEN <<Fin(399000000, 0), Fin(-863000000, 0)>>
    ELSE IF state.s = <<"K","S">> THEN <<Fin(385000000, 0), Fin(-980000000, 0)>>
    ELSE <<>>

\* geocode_query on the response resp: (lat, lon), None, or an exception
\* that nothing catches (requests.get raises, the body is not JSON, the
\* center is not a pair)
geocode_query(resp) ==
    IF resp.kind = "raise" THEN [kind |-> "raise"]
    ELSE IF ~resp.json THEN [kind |-> "raise"]
    ELSE IF resp.centers = <<>> THEN [kind |-> "none"]
    ELSE IF Len(resp.centers[1]) # 2 THEN [kind |-> "raise"]
    ELSE [kind |-> "found", lat |-> resp.centers[1][2], lon |-> resp.centers[1][1]]

\* the geocode target of a row, in priority order: the full address, the
\* city, the state centroid, or nothing
geocode_target(row) ==
    IF NotBlankCell(row.ADDRESS)
    THEN [kind |-> "query",
          query |-> StrOfCell(row.ADDRESS) \o <<",", " ">> \o StrOfCell(row.CITY) \o <<",", " ">>
                    \o StrOfCell(row.STATE_) \o <<" ">> \o StrOfCell(row.ZIP_CODE)]
    ELSE IF NotBlankCell(row.CITY)
    THEN [kind |-> "query",
          query |-> StrOfCell(row.CITY) \o <<",", " ">> \o StrOfCell(row.STATE_)]
    ELSE IF STATE_CENTROIDS(row.STATE_) # <<>> THEN [kind |-> "centroid"]
    ELSE [kind |-> "anomaly"]

\* the feature appended for a row at (lat, lon)
Kingpin1Feature(row, lat, lon) ==
    [Name |-> row.CONTACT_NAME, Retailer |-> row.RETAILER, Category |-> "Kingpin",
     coordinates |-> <<lon, lat>>]

\* one row of kingpin1_COMBINED.xlsx
Kingpin1Row(name, retailer, addr, city, st0, zip) ==
    [CONTACT_NAME |-> name, RETAILER |-> retailer, ADDRESS |-> addr, CITY |-> city,
     STATE_ |-> st0, ZIP_CODE |-> zip]

\* rows of the workbook: a full address, a city only, a state of the centroid
\* table only, a state the table does not hold, a blank address and no
\* state, and a row with a city and no state
Kingpin1Rows ==
    { Kingpin1Row(Txt(<<"A","l">>), Txt(<<"A","c","m","e"," ","C","o","o","p">>), Txt(<<"1"," ","M","a","i","n"," ","S","t">>), Txt(<<"A","m","e","s">>), Txt(<<"I","A">>), Txt(<<"5","0","0","1","0">>)),
      Kingpin1Row(Txt(<<"B","o">>), Txt(<<"A","c","m","e"," ","C","o","o","p">>), NaNCell, Txt(<<"A","m","e","s">>), Txt(<<"I","A">>), NaNCell),
      Kingpin1Row(Txt(<<"C","y">>), Txt(<<"B","o","l","t"," ","I","n","c">>), NaNCell, NaNCell, Txt(<<"I","A">>), NaNCell),
      Kingpin1Row(Txt(<<"D","i">>), Txt(<<"B","o","l","t"," ","I","n","c">>), NaNCell, NaNCell, Txt(<<"i","a">>), NaNCell),
      Kingpin1Row(Txt(<<"E","d">>), NaNCell, Txt(<<" ", " ">>), NaNCell, NaNCell, NaNCell),
      Kingpin1Row(Txt(<<"F","l","o">>), Txt(<<"A","c","m","e"," ","C","o","o","p">>), NaNCell, Txt(<<"B","o","o","n","e">>), NaNCell, NaNCell) }

\* the longest workbook explored
MaxKingpin1Rows == 2

\* what the service may answer to geocode_kingpin1: the answers of the
\* pipeline and a feature whose center is not a pair
Kingpin1Responses == Responses \cup {Found(<<Deg(-93, 20)>>)}

\* the script when the loop starts, on every workbook explored
Kingpin1Init ==
    /\ NoRun
    /\ fn_call = NoCall
    /\ fn_ret = NoCall
    /\ ScriptsIdleExcept({"geocode_kingpin1"})
    /\ kingpin1_run \in
         {[pc |-> "loop", df |-> df, idx |-> 0, geojson_features |-> <<>>, anomalies |-> <<>>,
           output_json |-> <<>>, json_written |-> FALSE, anomaly_log |-> <<>>,
           log_written |-> FALSE] :
              df \in UNION {[1..n -> Kingpin1Rows] : n \in 0..MaxKingpin1Rows}}

\* one iteration of "for idx, row in df.iterrows()"; an exception of
\* geocode_query ends the script there
Kingpin1Step ==
    /\ kingpin1_run.pc = "loop"
    /\ kingpin1_run.idx < Len(kingpin1_run.df)
    /\ \E row \in {kingpin1_run.df[kingpin1_run.idx + 1]} :
       \E target \in {geocode_target(row)} :
       \E resp \in (IF target.kind = "query" THEN Kingpin1Responses ELSE {Timeout}) :
       \E result \in {geocode_query(resp)} :
          kingpin1_run' =
             IF target.kind = "centroid"
             THEN [kingpin1_run EXCEPT
                     !.idx = @ + 1,
                     !.geojson_features =
                         Append(@, Kingpin1Feature(row, STATE_CENTROIDS(row.STATE_)[1],
                                                   STATE_CENTROIDS(row.STATE_)[2]))]
             ELSE IF target.kind = "anomaly"
             THEN [kingpin1_run EXCEPT !.idx = @ + 1, !.anomalies = Append(@, row)]
             ELSE IF result.kind = "raise"
             THEN [kingpin1_run EXCEPT !.pc = "raised"]
             ELSE IF result.kind = "none"
             THEN [kingpin1_run EXCEPT !.idx = @ + 1, !.anomalies = Append(@, row)]
             ELSE [kingpin1_run EXCEPT
                     !.idx = @ + 1,
                     !.geojson_features =
                         Append(@, Kingpin1Feature(row, result.lat, result.lon))]
    /\ UNCHANGED <<run_vars, fn_call, fn_ret, retailers_run, combine_run, kingpin_run, geojson_run>>

\* after the loop: the feature collection, and the anomaly log when there
\* is an anomaly
Kingpin1Write ==
    /\ kingpin1_run.pc = "loop"
    /\ kingpin1_run.idx = Len(kingpin1_run.df)
    /\ kingpin1_run' =
          [kingpin1_run EXCEPT
             !.pc = "done",
             !.output_json = kingpin1_run.geojson_features,
             !.json_written = TRUE,
             !.anomaly_log = kingpin1_run.anomalies,
             !.log_written = kingpin1_run.anomalies # <<>>]
    /\ UNCHANGED <<run_vars, fn_call, fn_ret, retailers_run, combine_run, kingpin_run, geojson_run>>

Kingpin1Next == Kingpin1Step \/ Kingpin1Write

SpecKingpin1 == Kingpin1Init /\ [][Kingpin1Next]_vars

(***************************************************************************)
(* Properties of geocode_kingpin1                                          *)
(***************************************************************************)
\* C24: geocode_kingpin1 never deletes a row: when the script has ended every
\* input row is in exactly one of the feature list written and the anomaly
\* log, so features + anomalies is the number of input rows, also when the
\* geocoder failed for some row.
C24_NoRowDeleted ==
    kingpin1_run.pc \in {"done", "raised"} =>
        Len(kingpin1_run.output_json) + Len(kingpin1_run.anomaly_log) = Len(kingpin1_run.df)

(***************************************************************************)
(* geocode_retailers.py: main.  A coordinate cell of the data frame is a   *)
(* float or NaN (an empty cell); the other cells are text or NaN.          *)
(***************************************************************************)
\* pd.notna(v) on a coordinate cell
NotNa(v) == v.k # "nan"

\* safe_str(v) on a text cell
safe_str(c) == IF c.nan THEN <<>> ELSE Strip(c.s)

\* z.replace(".0", ""): left to right, without overlap
RECURSIVE ReplaceDotZero(_)
ReplaceDotZero(s) ==
    IF Len(s) < 2 THEN s
    ELSE IF s[1] = "." /\ s[2] = "0" THEN ReplaceDotZero(SubSeq(s, 3, Len(s)))
    ELSE <<Head(s)>> \o ReplaceDotZero(Tail(s))

\* ch.isdigit() or ch == "-"
IsZipChar(ch) == IsDigit(ch) \/ ch = "-"

\* a part of the query that is not empty
IsPart(p) == p # <<>>

\* the ZIP of build_query: ".0" removed, then only digits and dashes if any
RetailersZip(z) ==
    IF SelectSeq(Strip(ReplaceDotZero(z)), IsZipChar) # <<>>
    THEN SelectSeq(Strip(ReplaceDotZero(z)), IsZipChar)
    ELSE Strip(ReplaceDotZero(z))

\* build_query(row) of geocode_retailers
RetailersBuildQuery(row) ==
    Join(SelectSeq(<<safe_str(row.Address), safe_str(row.City), safe_str(row.State),
                     RetailersZip(safe_str(row.Zip))>>,
                   IsPart),
         <<",", " ">>)

\* _cache_key(query)
RetailersCacheKey(query) == Upper(Strip(query))


\* a key that a cache entry does not hold
AbsentValue == [k |-> "absent", u |-> 0, e |-> 0]

\* a cache value that float() rejects
TextValue == [k |-> "text", u |-> 0, e |-> 0]

\* the cache entry answers the row: it holds lat and lon and both are floats
RetailersCacheUsable(entries, ck) ==
    /\ ck \in DOMAIN entries
    /\ entries[ck].lat # AbsentValue
    /\ entries[ck].lon # AbsentValue
    /\ Floatable(entries[ck].lat)
    /\ Floatable(entries[ck].lon)

\* f"http_{status_code}"
HttpStatusText(status) == "http_" \o ToString(status)

\* geocode_one(token, query) on the response resp: (lat, lon, status_text,
\* http_status); a body that is not JSON raises out of it, a center that
\* float() rejects is a bad center
geocode_one(query, resp) ==
    IF query = <<>>
    THEN [kind |-> "return", lat |-> AbsentValue, lon |-> AbsentValue,
          status |-> "empty_query", http_status |-> 0]
    ELSE IF resp.kind = "raise"
    THEN [kind |-> "return", lat |-> AbsentValue, lon |-> AbsentValue,
          status |-> "exception", http_status |-> 0]
    ELSE IF resp.status # 200
    THEN [kind |-> "return", lat |-> AbsentValue, lon |-> AbsentValue,
          status |-> HttpStatusText(resp.status), http_status |-> resp.status]
    ELSE IF ~resp.json THEN [kind |-> "raise"]
    ELSE IF resp.centers = <<>>
    THEN [kind |-> "return", lat |-> AbsentValue, lon |-> AbsentValue,
          status |-> "no_results", http_status |-> 200]
    ELSE IF Len(resp.centers[1]) # 2
    THEN [kind |-> "return", lat |-> AbsentValue, lon |-> AbsentValue,
          status |-> "bad_center", http_status |-> 200]
    ELSE IF ~Floatable(resp.centers[1][2]) \/ ~Floatable(resp.centers[1][1])
    THEN [kind |-> "return", lat |-> AbsentValue, lon |-> AbsentValue,
          status |-> "bad_center", http_status |-> 200]
    ELSE [kind |-> "return", lat |-> resp.centers[1][2], lon |-> resp.centers[1][1],
          status |-> "ok", http_status |-> 200]

\* one row of retailers.xlsx after normalize_columns and the added columns
RetailersRow(lat, lon, lat2, lon2, addr, city, state, zip) ==
    [Latitude |-> lat, Longitude |-> lon, LAT |-> lat2, LON |-> lon2,
     Address |-> addr, City |-> city, State |-> state, Zip |-> zip,
     GEOCODE_STATUS |-> "", GEOCODE_QUERY |-> <<>>]

\* rows of the workbook: without coordinates, with coordinates in the
\* Latitude/Longitude style only, in the LAT/LON style only, in both, without
\* coordinates and without address, and with a latitude alone
RetailersRows ==
    { RetailersRow(NaN, NaN, NaN, NaN, Txt(<<"1","2"," ","M","a","i","n"," ","S","t">>), Txt(<<"A","m","e","s">>), Txt(<<"I","A">>), Txt(<<"5","0","0","1","0",".","0">>)),
      RetailersRow(Deg(42, 3), Deg(-93, 61), NaN, NaN, Txt(<<"1","2"," ","M","a","i","n"," ","S","t">>), Txt(<<"A","m","e","s">>), Txt(<<"I","A">>), Txt(<<"5","0","0","1","0",".","0">>)),
      RetailersRow(NaN, NaN, Deg(42, 3), Deg(-93, 61), Txt(<<"3"," ","O","a","k"," ","A","v","e">>), Txt(<<"A","m","e","s">>), Txt(<<"I","A">>), NaNCell),
      RetailersRow(Deg(42, 3), Deg(-93, 61), Deg(42, 3), Deg(-93, 61), NaNCell, Txt(<<"A","m","e","s">>), Txt(<<"I","A">>), NaNCell),
      RetailersRow(NaN, NaN, NaN, NaN, Txt(<<" ">>), NaNCell, NaNCell, NaNCell),
      RetailersRow(Deg(42, 3), NaN, NaN, NaN, Txt(<<"1","2"," ","M","a","i","n"," ","S","t">>), Txt(<<"A","m","e","s">>), Txt(<<"I","A">>), Txt(<<"5","0","0","1","0",".","0">>)) }

\* the query of the rows with a full address, as the cache file holds it
RetailersMainKey == <<"1","2"," ","M","A","I","N"," ","S","T",","," ","A","M","E","S",","," ","I","A",","," ","5","0","0","1","0">>

\* an entry of the cache
RetailersEntry(lat, lon, status, query) ==
    [lat |-> lat, lon |-> lon, status |-> status, query |-> query]

\* contents of the cache file when the run starts: none, an entry with a
\* coordinate, an entry without one, an entry whose latitude is no number
RetailersCaches ==
    { <<>>,
      [q \in {RetailersMainKey} |-> RetailersEntry(Deg(41, 70), Deg(-93, 30), "ok", RetailersMainKey)],
      [q \in {RetailersMainKey} |-> RetailersEntry(AbsentValue, AbsentValue, "no_results", RetailersMainKey)],
      [q \in {RetailersMainKey} |-> RetailersEntry(TextValue, Deg(-93, 30), "ok", RetailersMainKey)] }

\* the longest workbook explored
MaxRetailersRows == 2

\* what the service may answer to geocode_retailers: the answers of the
\* pipeline, two more HTTP errors (one of them beyond the registered status
\* codes), and a center that is not a number
RetailersResponses == Responses \cup {Http(404), Http(600), Found(<<TextCell, Deg(41, 80)>>)}

ZeroRetailersCounts ==
    [cache_hits |-> 0, cache_writes |-> 0, updated |-> 0, failures |-> 0,
     skipped_existing |-> 0, http_fail_counts |-> <<>>]

\* main is entered, on every workbook, cache file and token explored
RetailersInit ==
    /\ NoRun
    /\ fn_call = NoCall
    /\ fn_ret = NoCall
    /\ ScriptsIdleExcept({"geocode_retailers"})
    /\ retailers_run \in
         {[pc |-> "start", token |-> token, df |-> df, idx |-> 0, entries |-> entries,
           counts |-> ZeroRetailersCounts, requests |-> <<>>,
           df_out |-> <<>>, xlsx_written |-> FALSE, cache_file |-> entries, stats |-> <<>>] :
              token \in BOOLEAN,
              df \in UNION {[1..n -> RetailersRows] : n \in 0..MaxRetailersRows},
              entries \in RetailersCaches}

\* main up to the loop: without a token it raises
RetailersStart ==
    /\ retailers_run.pc = "start"
    /\ retailers_run' = [retailers_run EXCEPT !.pc = IF retailers_run.token THEN "loop" ELSE "raised"]
    /\ UNCHANGED <<run_vars, fn_call, fn_ret, kingpin1_run, combine_run, kingpin_run, geojson_run>>

\* the row with its four coordinate cells set to (lat, lon)
WithBothStyles(row, lat, lon) ==
    [row EXCEPT !.Latitude = lat, !.Longitude = lon, !.LAT = lat, !.LON = lon]

\* the row has coordinates in one style at least: the loop skips it
HasCoordsEitherStyle(row) ==
    \/ NotNa(row.Latitude) /\ NotNa(row.Longitude)
    \/ NotNa(row.LAT) /\ NotNa(row.LON)

\* the status texts that start with "http_": geocode_one makes them of the
\* status code of the response, a number of three digits at most (http.client
\* takes 100 to 999 from the status line)
HttpStatusTexts == {HttpStatusText(n) : n \in 0..999}

\* status.startswith("http_"), status being a status text of geocode_one
IsHttpStatusText(status) == status \in HttpStatusTexts

\* the counters after one more request that came back with status:
\* http_fail_counts[status] = http_fail_counts.get(status, 0) + 1
CountHttp(counts, status) ==
    IF ~IsHttpStatusText(status) THEN counts
    ELSE [counts EXCEPT
            !.http_fail_counts =
                [k \in DOMAIN @ \cup {status} |->
                    IF k \notin DOMAIN @ THEN 1
                    ELSE IF k = status THEN @[k] + 1 ELSE @[k]]]

\* the iteration for the row at idx + 1 sends a request: the row has no
\* coordinates, a query, and no usable cache entry
RetailersCalls(run) ==
    /\ ~HasCoordsEitherStyle(run.df[run.idx + 1])
    /\ RetailersBuildQuery(run.df[run.idx + 1]) # <<>>
    /\ ~RetailersCacheUsable(run.entries,
                             RetailersCacheKey(RetailersBuildQuery(run.df[run.idx + 1])))

\* the body of "for i, row in df.iterrows()" for the row at idx + 1, resp
\* being the answer to its request if it sends one
RetailersIteration(run, resp) ==
    CHOOSE r \in
      { IF HasCoordsEitherStyle(row)
        THEN [run EXCEPT !.idx = i, !.counts.skipped_existing = @ + 1]
        ELSE IF query = <<>>
        THEN [run EXCEPT
                !.idx = i,
                !.df[i] = [row EXCEPT !.GEOCODE_QUERY = query,
                                       !.GEOCODE_STATUS = "missing_query"],
                !.counts.failures = @ + 1]
        ELSE IF RetailersCacheUsable(run.entries, ck)
        THEN [run EXCEPT
                !.idx = i,
                !.df[i] = [WithBothStyles(row, run.entries[ck].lat, run.entries[ck].lon)
                             EXCEPT !.GEOCODE_QUERY = query, !.GEOCODE_STATUS = "cache"],
                !.counts.cache_hits = @ + 1]
        ELSE IF got.kind = "raise"
        THEN [run EXCEPT
                !.pc = "raised",
                !.requests = Append(@, query),
                !.df[i] = [row EXCEPT !.GEOCODE_QUERY = query]]
        ELSE IF got.lat = AbsentValue \/ got.lon = AbsentValue
        THEN [run EXCEPT
                !.idx = i,
                !.requests = Append(@, query),
                !.df[i] = [row EXCEPT !.GEOCODE_QUERY = query,
                                       !.GEOCODE_STATUS = got.status],
                !.counts = [CountHttp(@, got.status) EXCEPT !.failures = @ + 1]]
        ELSE [run EXCEPT
                !.idx = i,
                !.requests = Append(@, query),
                !.df[i] = [WithBothStyles(row, got.lat, got.lon)
                             EXCEPT !.GEOCODE_QUERY = query, !.GEOCODE_STATUS = got.status],
                !.entries = [q \in DOMAIN @ \cup {ck} |->
                               IF q = ck THEN RetailersEntry(got.lat, got.lon, got.status, query)
                               ELSE @[q]],
                !.counts = [@ EXCEPT !.updated = @ + 1, !.cache_writes = @ + 1]] :
          i \in {run.idx + 1},
          row \in {run.df[run.idx + 1]},
          query \in {RetailersBuildQuery(run.df[run.idx + 1])},
          ck \in {RetailersCacheKey(RetailersBuildQuery(run.df[run.idx + 1]))},
          got \in {geocode_one(RetailersBuildQuery(run.df[run.idx + 1]), resp)} } : TRUE

\* one iteration of "for i, row in df.iterrows()"
RetailersStep ==
    /\ retailers_run.pc = "loop"
    /\ retailers_run.idx < Len(retailers_run.df)
    /\ \E resp \in (IF RetailersCalls(retailers_run) THEN RetailersResponses ELSE {Timeout}) :
          retailers_run' = RetailersIteration(retailers_run, resp)
    /\ UNCHANGED <<run_vars, fn_call, fn_ret, kingpin1_run, combine_run, kingpin_run, geojson_run>>

\* after the loop: the cache file, the workbook and the stats
RetailersWrite ==
    /\ retailers_run.pc = "loop"
    /\ retailers_run.idx = Len(retailers_run.df)
    /\ retailers_run' =
          [retailers_run EXCEPT
             !.pc = "done",
             !.cache_file = retailers_run.entries,
             !.df_out = retailers_run.df,
             !.xlsx_written = TRUE,
             !.stats = [rows_total |-> Len(retailers_run.df)] @@ retailers_run.counts]
    /\ UNCHANGED <<run_vars, fn_call, fn_ret, kingpin1_run, combine_run, kingpin_run, geojson_run>>

RetailersNext == RetailersStart \/ RetailersStep \/ RetailersWrite

SpecRetailers == RetailersInit /\ [][RetailersNext]_vars

(***************************************************************************)
(* Properties of geocode_retailers                                         *)
(***************************************************************************)
\* C25: in the workbook geocode_retailers writes, every row that has a
\* coordinate has it in both column pairs with equal values (Latitude = LAT
\* and Longitude = LON), the rows skipped because they came with coordinates
\* in one style included.
C25_BothStylesEqual ==
    retailers_run.pc = "done" =>
        \A i \in 1..Len(retailers_run.df_out) :
            HasCoordsEitherStyle(retailers_run.df_out[i]) =>
                /\ retailers_run.df_out[i].Latitude = retailers_run.df_out[i].LAT
                /\ retailers_run.df_out[i].Longitude = retailers_run.df_out[i].LON

(***************************************************************************)
(* combine_channel_partners.py.  A sheet of the workbook is its header row *)
(* and its rows of cells; a cell is text, NaN (an empty cell) or pd.NA (a  *)
(* column the script added).                                               *)
(***************************************************************************)
\* the canonical output schema
CANON_COLS == <<<<"L","o","n","g","N","a","m","e">>, <<"R","e","t","a","i","l","e","r">>, <<"N","a","m","e">>, <<"A","d","d","r","e","s","s">>, <<"C","i","t","y">>, <<"S","t","a","t","e">>, <<"Z","i","p">>, <<"C","a","t","e","g","o","r","y">>, <<"S","u","p","p","l","i","e","r","s">>>>

\* header aliases: <<normalized lowercase header, canonical name>>
ALIASES ==
    << <<<<"l","o","n","g","n","a","m","e">>, <<"L","o","n","g","N","a","m","e">>>>,
       <<<<"l","o","n","g"," ","n","a","m","e">>, <<"L","o","n","g","N","a","m","e">>>>,
       <<<<"l","o","n","g","_","n","a","m","e">>, <<"L","o","n","g","N","a","m","e">>>>,
       <<<<"l","o","n","g","-","n","a","m","e">>, <<"L","o","n","g","N","a","m","e">>>>,
       <<<<"l","o","n","g"," ","n","a","m","e"," ">>, <<"L","o","n","g","N","a","m","e">>>>,
       <<<<"r","e","t","a","i","l","e","r">>, <<"R","e","t","a","i","l","e","r">>>>,
       <<<<"r","e","t","a","i","l","e","r"," ","n","a","m","e">>, <<"R","e","t","a","i","l","e","r">>>>,
       <<<<"n","a","m","e">>, <<"N","a","m","e">>>>,
       <<<<"l","o","c","a","t","i","o","n">>, <<"N","a","m","e">>>>,
       <<<<"s","i","t","e">>, <<"N","a","m","e">>>>,
       <<<<"a","d","d","r","e","s","s">>, <<"A","d","d","r","e","s","s">>>>,
       <<<<"s","t","r","e","e","t">>, <<"A","d","d","r","e","s","s">>>>,
       <<<<"s","t","r","e","e","t"," ","a","d","d","r","e","s","s">>, <<"A","d","d","r","e","s","s">>>>,
       <<<<"a","d","d","r">>, <<"A","d","d","r","e","s","s">>>>,
       <<<<"c","i","t","y">>, <<"C","i","t","y">>>>,
       <<<<"t","o","w","n">>, <<"C","i","t","y">>>>,
       <<<<"s","t","a","t","e">>, <<"S","t","a","t","e">>>>,
       <<<<"s","t">>, <<"S","t","a","t","e">>>>,
       <<<<"z","i","p">>, <<"Z","i","p">>>>,
       <<<<"z","i","p","c","o","d","e">>, <<"Z","i","p">>>>,
       <<<<"z","i","p"," ","c","o","d","e">>, <<"Z","i","p">>>>,
       <<<<"p","o","s","t","a","l">>, <<"Z","i","p">>>>,
       <<<<"p","o","s","t","a","l"," ","c","o","d","e">>, <<"Z","i","p">>>>,
       <<<<"c","a","t","e","g","o","r","y">>, <<"C","a","t","e","g","o","r","y">>>>,
       <<<<"c","a","t","e","g","o","r","y"," ">>, <<"C","a","t","e","g","o","r","y">>>>,
       <<<<"c","a","t","e","g","o","r","i","e","s">>, <<"C","a","t","e","g","o","r","y">>>>,
       <<<<"c","a","t">>, <<"C","a","t","e","g","o","r","y">>>>,
       <<<<"a","c","c","o","u","n","t"," ","c","a","t","e","g","o","r","y">>, <<"C","a","t","e","g","o","r","y">>>>,
       <<<<"a","c","c","t"," ","c","a","t","e","g","o","r","y">>, <<"C","a","t","e","g","o","r","y">>>>,
       <<<<"d","i","v","i","s","i","o","n","/","c","a","t","e","g","o","r","y">>, <<"C","a","t","e","g","o","r","y">>>>,
       <<<<"s","u","p","p","l","i","e","r","s">>, <<"S","u","p","p","l","i","e","r","s">>>>,
       <<<<"s","u","p","p","l","i","e","r">>, <<"S","u","p","p","l","i","e","r","s">>>>,
       <<<<"s","u","p","p","l","i","e","r","(","s",")">>, <<"S","u","p","p","l","i","e","r","s">>>>,
       <<<<"v","e","n","d","o","r","s">>, <<"S","u","p","p","l","i","e","r","s">>>> >>

\* a character other than the byte order mark
NotBom(c) == c # "U+FEFF"

\* norm_header(h): the byte order marks removed, trimmed, runs of whitespace
\* collapsed
norm_header(h) == CleanWs(SelectSeq(h, NotBom))

\* alias_key(h)
alias_key(h) == Lower(norm_header(h))

\* the name canonicalize_columns gives the column col
CanonicalName(col) ==
    CHOOSE name \in
      { IF \E k \in 1..Len(ALIASES) : ALIASES[k][1] = key
        THEN ALIASES[CHOOSE k \in 1..Len(ALIASES) : ALIASES[k][1] = key][2]
        ELSE IF \E k \in 1..Len(CANON_COLS) : Lower(CANON_COLS[k]) = key
        THEN CANON_COLS[CHOOSE k \in 1..Len(CANON_COLS) : Lower(CANON_COLS[k]) = key]
        ELSE norm_header(col) : key \in {alias_key(col)} } : TRUE

\* pd.NA, the value of a column the script adds
PdNA == [nan |-> TRUE, s |-> <<"<","N","A",">">>]

\* a sheet: the header row and the rows, each as long as the header row
Sheet(columns, rows) == [columns |-> columns, rows |-> rows]

\* df.columns.duplicated().any() after the renaming
HasDuplicateColumns(sheet) ==
    \E i, j \in 1..Len(sheet.columns) :
        i < j /\ CanonicalName(sheet.columns[i]) = CanonicalName(sheet.columns[j])

\* the positions of the columns of the sheet that are renamed to name
ColumnsNamed(sheet, name) ==
    {i \in 1..Len(sheet.columns) : CanonicalName(sheet.columns[i]) = name}

\* the value of the row under name after the renaming, duplicates being
\* combined to the first value that is not null
FirstNonNull(sheet, row, name) ==
    IF \E i \in ColumnsNamed(sheet, name) : ~row[i].nan
    THEN row[CHOOSE i \in ColumnsNamed(sheet, name) :
                 ~row[i].nan /\ \A j \in ColumnsNamed(sheet, name) : j < i => row[j].nan]
    ELSE row[CHOOSE i \in ColumnsNamed(sheet, name) :
                 \A j \in ColumnsNamed(sheet, name) : i <= j]

\* x.strip() if isinstance(x, str) else x
StripCell(c) == IF c.nan THEN c ELSE Txt(Strip(c.s))

\* canonicalize_columns, coerce_strings and ensure_schema on one sheet: the
\* rows over CANON_COLS, a missing column being pd.NA
CanonicalFrame(sheet) ==
    [r \in 1..Len(sheet.rows) |->
        [k \in 1..Len(CANON_COLS) |->
            IF ColumnsNamed(sheet, CANON_COLS[k]) = {} THEN PdNA
            ELSE StripCell(FirstNonNull(sheet, sheet.rows[r], CANON_COLS[k]))]]

\* pd.concat(frames, ignore_index=True)
RECURSIVE Concat(_)
Concat(frames) == IF frames = <<>> THEN <<>> ELSE Head(frames) \o Concat(Tail(frames))

\* combined[name] of one row
ColumnOf(row, name) == row[CHOOSE k \in 1..Len(CANON_COLS) : CANON_COLS[k] = name]

\* astype(str) of a cell
AsTypeStr(c) == IF c = NaNCell THEN <<"n","a","n">> ELSE c.s

\* is_blank_category without the texts nan, null and none
mutant_is_blank_category(v) == v.nan \/ Strip(v.s) = <<>>

\* is_blank_category(v)
is_blank_category(v) ==
    \/ v.nan
    \/ Strip(v.s) = <<>>
    \/ Lower(Strip(v.s)) \in {<<"n","a","n">>, <<"n","u","l","l">>, <<"n","o","n","e">>}

\* combined["Retailer"].astype(str).str.contains("Landus", na=False) of one row
IsLandusRow(row) == Contains(AsTypeStr(ColumnOf(row, <<"R","e","t","a","i","l","e","r">>)), <<"L","a","n","d","u","s">>)

\* the rows of combined whose Retailer contains "Landus"
LandusRows(combined) ==
    SelectSeq(combined, IsLandusRow)

\* validate_landus(combined) raises
validate_landus(combined) ==
    /\ LandusRows(combined) # <<>>
    /\ \E k \in 1..Len(LandusRows(combined)) :
          is_blank_category(ColumnOf(LandusRows(combined)[k], <<"C","a","t","e","g","o","r","y">>))
\* Retailer cells explored
RetailerCells ==
    { Txt(<<"L","a","n","d","u","s">>), Txt(<<" ","L","a","n","d","u","s"," ","C","o","o","p","e","r","a","t","i","v","e"," ">>), Txt(<<"L","A","N","D","U","S">>), Txt(<<"A","c","m","e">>), NaNCell }

\* Category cells explored: blank ones of every kind, padded ones (by spaces,
\* by a no-break space and a carriage return) and categories
CategoryCells ==
    { NaNCell, Txt(<<>>), Txt(<<" ", " ">>), Txt(<<"n","a","n">>), Txt(<<"N","U","L","L">>), Txt(<<"N","o","n","e">>),
      Txt(<<" ","n","o","n","e"," ">>), Txt(<<" ","N","a","N","\r">>), Txt(<<"n","a","n","o">>), Txt(<<"A","g","r","o","n","o","m","y">>) }

\* sheets explored: one row under the headers Retailer and Category, the
\* same under alias headers with padding, two columns that both become
\* Category, a sheet without Category column, a sheet without rows, and a
\* sheet with two rows
Sheets ==
    { Sheet(<<<<"R","e","t","a","i","l","e","r">>, <<"C","a","t","e","g","o","r","y">>>>, <<<<r, c>>>>) : r \in RetailerCells, c \in CategoryCells }
    \cup
    { Sheet(<<<<" ","R","e","t","a","i","l","e","r"," "," ","N","a","m","e">>, <<"N","o","t","e","s">>, <<"C","A","T"," ">>>>, << <<Txt(<<"L","a","n","d","u","s">>), Txt(<<"L","a","n","d","u","s">>), Txt(<<"N","U","L","L">>)>> >>),
      Sheet(<<<<" ","R","e","t","a","i","l","e","r"," "," ","N","a","m","e">>, <<"N","o","t","e","s">>, <<"C","A","T"," ">>>>, << <<Txt(<<"A","c","m","e">>), Txt(<<"L","a","n","d","u","s">>), NaNCell>> >>),
      Sheet(<<<<"R","e","t","a","i","l","e","r">>, <<"C","A","T"," ">>, <<"C","a","t","e","g","o","r","i","e","s">>>>, << <<Txt(<<"L","a","n","d","u","s">>), NaNCell, Txt(<<"A","g","r","o","n","o","m","y">>)>> >>),
      Sheet(<<<<"R","e","t","a","i","l","e","r">>, <<"C","A","T"," ">>, <<"C","a","t","e","g","o","r","i","e","s">>>>, << <<Txt(<<"L","a","n","d","u","s">>), NaNCell, NaNCell>> >>),
      Sheet(<<<<"R","e","t","a","i","l","e","r">>, <<"N","a","m","e">>>>, << <<Txt(<<"L","a","n","d","u","s">>), Txt(<<"A","m","e","s">>)>> >>),
      Sheet(<<<<"R","e","t","a","i","l","e","r">>, <<"N","a","m","e">>>>, << <<Txt(<<"A","c","m","e">>), Txt(<<"A","m","e","s">>)>> >>),
      Sheet(<<<<"R","e","t","a","i","l","e","r">>, <<"C","a","t","e","g","o","r","y">>>>, <<>>),
      Sheet(<<<<"R","e","t","a","i","l","e","r">>, <<"C","a","t","e","g","o","r","y">>>>,
            << <<Txt(<<"L","a","n","d","u","s">>), Txt(<<"A","g","r","o","n","o","m","y">>)>>, <<Txt(<<" ","L","a","n","d","u","s"," ","C","o","o","p","e","r","a","t","i","v","e"," ">>), Txt(<<"N","o","n","e">>)>> >>) }

\* the largest number of sheets of a workbook explored
MaxSheets == 2

\* combine_workbook is entered, on every workbook explored; the workbook
\* may be missing
CombineInit ==
    /\ NoRun
    /\ fn_call = NoCall
    /\ fn_ret = NoCall
    /\ ScriptsIdleExcept({"combine_channel_partners"})
    /\ combine_run \in
         {[pc |-> "start", input_exists |-> input_exists, sheet_names |-> sheet_names,
           frames |-> <<>>, combined |-> <<>>, output |-> <<>>, written |-> FALSE] :
              input_exists \in BOOLEAN,
              sheet_names \in UNION {[1..n -> Sheets] : n \in 1..MaxSheets}}

\* combine_workbook up to the loop: a missing workbook raises
CombineStart ==
    /\ combine_run.pc = "start"
    /\ combine_run' = [combine_run EXCEPT !.pc = IF combine_run.input_exists THEN "sheets" ELSE "raised"]
    /\ UNCHANGED <<run_vars, fn_call, fn_ret, kingpin1_run, retailers_run, kingpin_run, geojson_run>>

\* one iteration of "for sheet in excel.sheet_names".  When two columns get
\* the same name, pandas either combines them as the comment in the code says
\* or rejects the frame built from them, depending on its version.
CombineSheet ==
    /\ combine_run.pc = "sheets"
    /\ Len(combine_run.frames) < Len(combine_run.sheet_names)
    /\ \E sheet \in {combine_run.sheet_names[Len(combine_run.frames) + 1]} :
       \E rejected \in (IF HasDuplicateColumns(sheet) THEN BOOLEAN ELSE {FALSE}) :
          combine_run' =
             IF rejected THEN [combine_run EXCEPT !.pc = "raised"]
             ELSE [combine_run EXCEPT !.frames = Append(@, CanonicalFrame(sheet))]
    /\ UNCHANGED <<run_vars, fn_call, fn_ret, kingpin1_run, retailers_run, kingpin_run, geojson_run>>

\* after the loop: concat, the final trim, validate_landus and the output
CombineFinish ==
    /\ combine_run.pc = "sheets"
    /\ Len(combine_run.frames) = Len(combine_run.sheet_names)
    /\ \E rows \in {[r \in 1..Len(Concat(combine_run.frames)) |->
                       [k \in 1..Len(CANON_COLS) |-> StripCell(Concat(combine_run.frames)[r][k])]]} :
          combine_run' =
             IF validate_landus(rows)
             THEN [combine_run EXCEPT !.pc = "raised", !.combined = rows]
             ELSE [combine_run EXCEPT !.pc = "done", !.combined = rows,
                                      !.output = rows, !.written = TRUE]
    /\ UNCHANGED <<run_vars, fn_call, fn_ret, kingpin1_run, retailers_run, kingpin_run, geojson_run>>

CombineNext == CombineStart \/ CombineSheet \/ CombineFinish

SpecCombine == CombineInit /\ [][CombineNext]_vars

(***************************************************************************)
(* Properties of combine_channel_partners                                  *)
(***************************************************************************)
\* the Category is blank as the header of the script states it: empty, NA,
\* or the text nan, null or none in any case
StatedBlank(c) == c.nan \/ c.s = <<>> \/ Lower(c.s) \in {<<"n","a","n">>, <<"n","u","l","l">>, <<"n","o","n","e">>}

\* the positions of the rows whose Retailer is text that contains "Landus"
\* and whose Category is blank
BlankLandusRows(rows) ==
    {r \in 1..Len(rows) :
        /\ ~rows[r][2].nan
        /\ Contains(rows[r][2].s, <<"L","a","n","d","u","s">>)
        /\ StatedBlank(rows[r][8])}

\* the rows of each sheet explored under the canonical columns
FramesOfSheets == [s \in Sheets |-> CanonicalFrame(s)]

\* the rows of every sheet of the workbook under the canonical columns
InputRows == Concat([n \in 1..Len(combine_run.sheet_names) |->
                        FramesOfSheets[combine_run.sheet_names[n]]])

\* C26: combine_workbook writes the combined workbook only if no row whose
\* Retailer contains "Landus" has a blank Category (empty, NA, or the text
\* nan / null / none in any case); otherwise it raises and writes nothing.
C26_LandusHardStop ==
    /\ combine_run.written =>
          /\ combine_run.output = InputRows
          /\ BlankLandusRows(InputRows) = {}
    /\ (combine_run.pc \in {"done", "raised"} /\ BlankLandusRows(InputRows) # {}) =>
          /\ combine_run.pc = "raised"
          /\ ~combine_run.written
          /\ combine_run.output = <<>>

\* a workbook with a Landus row whose Category is the text None was
\* rejected after the loop, nothing being written
C26_Witness ==
    /\ combine_run.pc = "raised"
    /\ combine_run.combined # <<>>
    /\ \E r \in BlankLandusRows(combine_run.combined) :
          ~combine_run.combined[r][8].nan /\ combine_run.combined[r][8].s # <<>>
    /\ ~combine_run.written

(***************************************************************************)
(* geocode_kingpin.py: main.  LAT and LON cells are floats, NaN or text;   *)
(* the other cells are text or NaN.                                        *)
(***************************************************************************)
\* is_valid_coord(lat, lon)
is_valid_coord(lat, lon) ==
    IF lat.k = "nan" \/ lon.k = "nan" THEN FALSE
    ELSE IF lat.k \in {"blank", "text", "none"} \/ lon.k \in {"blank", "text", "none"} THEN FALSE
    ELSE InDegrees(lat, -90, 90) /\ InDegrees(lon, -180, 180)

\* is_blank(v) of geocode_kingpin.py
geocode_kingpin_is_blank(v) ==
    \/ v.nan
    \/ Strip(v.s) = <<>>
    \/ Lower(Strip(v.s)) \in {<<"n","a","n">>, <<"n","o","n","e">>, <<"n","u","l","l">>}

\* has_any_address_fields(row)
has_any_address_fields(row) ==
    ~(/\ geocode_kingpin_is_blank(row.FULL_BLOCK_ADDRESS)
      /\ geocode_kingpin_is_blank(row.ADDRESS)
      /\ geocode_kingpin_is_blank(row.CITY)
      /\ geocode_kingpin_is_blank(row.STATE_1)
      /\ geocode_kingpin_is_blank(row.ZIP_CODE))

\* s.replace(old, new): left to right, without overlap (old is not empty)
RECURSIVE ReplaceText(_, _, _)
ReplaceText(s, old, new) ==
    IF Len(s) < Len(old) THEN s
    ELSE IF SubSeq(s, 1, Len(old)) = old
    THEN new \o ReplaceText(SubSeq(s, Len(old) + 1, Len(s)), old, new)
    ELSE <<Head(s)>> \o ReplaceText(Tail(s), old, new)

\* build_query(row) of geocode_kingpin.py
geocode_kingpin_build_query(row) ==
    IF ~geocode_kingpin_is_blank(row.FULL_BLOCK_ADDRESS)
    THEN CleanWs(Strip(ReplaceText(ReplaceText(Strip(StrOfCell(row.FULL_BLOCK_ADDRESS)),
                                               <<",", ",">>, <<",">>),
                                   <<" ", ",">>, <<",">>)))
    ELSE Strip(Join(SelectSeq(<<Strip(StrOfCell(row.ADDRESS)), Strip(StrOfCell(row.CITY)),
                                Strip(StrOfCell(row.STATE_1)), Strip(StrOfCell(row.ZIP_CODE))>>,
                              IsPart),
                    <<",", " ">>))

\* str.rstrip(",")
RECURSIVE RStripCommas(_)
RStripCommas(s) ==
    IF s = <<>> THEN <<>>
    ELSE IF s[Len(s)] = "," THEN RStripCommas(SubSeq(s, 1, Len(s) - 1)) ELSE s

\* build_city_center_query(city, state, zip_code)
build_city_center_query(city, state, zip_code) ==
    IF Strip(Join(SelectSeq(<<Strip(state), Strip(zip_code)>>, IsPart), <<" ">>)) # <<>>
    THEN <<"C","i","t","y"," ","C","e","n","t","e","r">> \o <<",", " ">> \o Strip(city) \o <<",", " ">>
         \o Strip(Join(SelectSeq(<<Strip(state), Strip(zip_code)>>, IsPart), <<" ">>))
    ELSE RStripCommas(Strip(<<"C","i","t","y"," ","C","e","n","t","e","r">> \o <<",", " ">> \o Strip(city) \o <<",", " ">>
                            \o Strip(state)))

\* cache_key(query): the SHA-256 digest of the stripped query, taken to be
\* free of collisions
geocode_kingpin_cache_key(query) == [sha256 |-> Strip(query)]

\* mapbox_geocode(query, token) on the response resp: (status, lat, lon,
\* http_status); every exception is caught, that of float() on the center
\* included
mapbox_geocode(resp) ==
    IF resp.kind = "raise"
    THEN [status |-> "exception", lat |-> None, lon |-> None, http_status |-> 0]
    ELSE IF resp.status = 200
    THEN IF ~resp.json
         THEN [status |-> "exception", lat |-> None, lon |-> None, http_status |-> 0]
         ELSE IF resp.centers = <<>>
         THEN [status |-> "no_features", lat |-> None, lon |-> None, http_status |-> 200]
         ELSE IF Len(resp.centers[1]) # 2
         THEN [status |-> "no_center", lat |-> None, lon |-> None, http_status |-> 200]
         ELSE IF ~Floatable(resp.centers[1][1]) \/ ~Floatable(resp.centers[1][2])
         THEN [status |-> "exception", lat |-> None, lon |-> None, http_status |-> 0]
         ELSE [status |-> "ok", lat |-> resp.centers[1][2], lon |-> resp.centers[1][1],
               http_status |-> 200]
    ELSE [status |-> HttpStatusText(resp.status), lat |-> None, lon |-> None,
          http_status |-> resp.status]

\* one row of kingpin_COMBINED.xlsx with the columns main adds
KingpinRow(lat, lon, fba, addr, city, state, zip, office, cell) ==
    [LAT |-> lat, LON |-> lon, FULL_BLOCK_ADDRESS |-> fba, ADDRESS |-> addr, CITY |-> city,
     STATE_1 |-> state, ZIP_CODE |-> zip, OFFICE_PHONE |-> office, CELL_PHONE |-> cell,
     GEOCODE_STATUS |-> "", GEOCODE_QUERY |-> <<>>, AREA_CODE |-> <<>>,
     GEO_ASSIGNMENT_METHOD |-> ""]

\* rows of the workbook: a full block address, address columns, valid
\* coordinates, a latitude out of range with the first address, a phone of
\* the lookup and no address, neither address nor phone, and a phone the
\* lookup does not hold
KingpinRows ==
    { KingpinRow(NaN, NaN, Txt(<<" ","1","2"," ","M","a","i","n"," ","S","t",",",","," ","A","m","e","s"," ",","," ","I","A"," "," ","5","0","0","1","0">>), NaNCell, NaNCell, NaNCell, NaNCell, NaNCell, NaNCell),
      KingpinRow(NaN, NaN, NaNCell, Txt(<<"3"," ","O","a","k"," ","A","v","e">>), Txt(<<"A","m","e","s">>), Txt(<<"I","A">>), NaNCell, NaNCell, NaNCell),
      KingpinRow(Deg(42, 3), Deg(-93, 61), Txt(<<" ","1","2"," ","M","a","i","n"," ","S","t",",",","," ","A","m","e","s"," ",","," ","I","A"," "," ","5","0","0","1","0">>), NaNCell, NaNCell, NaNCell, NaNCell, NaNCell, NaNCell),
      KingpinRow(Deg(95, 0), Deg(-93, 61), Txt(<<" ","1","2"," ","M","a","i","n"," ","S","t",",",","," ","A","m","e","s"," ",","," ","I","A"," "," ","5","0","0","1","0">>), NaNCell, NaNCell, NaNCell, NaNCell, NaNCell, NaNCell),
      KingpinRow(NaN, NaN, NaNCell, NaNCell, NaNCell, Txt(<<"n","o","n","e">>), NaNCell, Txt(<<"(","5","1","5",")"," ","5","5","5","-","0","1","0","0">>), NaNCell),
      KingpinRow(BlankCell, BlankCell, NaNCell, NaNCell, NaNCell, NaNCell, NaNCell, NaNCell, Txt(<<"5","5","5","-","0","1","0","0">>)),
      KingpinRow(NaN, NaN, NaNCell, NaNCell, NaNCell, NaNCell, NaNCell, NaNCell, Txt(<<"7","1","2",".","5","5","5",".","0","1","9","9">>)) }

\* area_lookup as load_area_code_lookup returns it: nothing, or one area
\* code with its city, state and zip
AreaLookups ==
    { <<>>,
      [ac \in {<<"5","1","5">>} |-> [city |-> <<"D","e","s"," ","M","o","i","n","e","s">>, state |-> <<"I","A">>, zip |-> <<"5","0","3","0","9">>]] }

\* the query of the rows with the full block address
KingpinMainQuery == <<"1","2"," ","M","a","i","n"," ","S","t",","," ","A","m","e","s",","," ","I","A"," ","5","0","0","1","0">>

\* an entry of the cache of geocode_kingpin (the debug text is left out)
KingpinEntry(status, lat, lon) == [status |-> status, lat |-> lat, lon |-> lon]

\* contents of the cache file when the run starts: none, a coordinate for the
\* full block address, a failure for it
KingpinCaches ==
    { <<>>,
      [q \in {geocode_kingpin_cache_key(KingpinMainQuery)} |-> KingpinEntry("ok", Deg(41, 70), Deg(-93, 30))],
      [q \in {geocode_kingpin_cache_key(KingpinMainQuery)} |-> KingpinEntry("no_features", BlankCell, BlankCell)] }

\* what the service may answer to geocode_kingpin: the answers of the
\* pipeline, a center that is not a pair, a center that is not a number and
\* one more HTTP error
KingpinResponses ==
    Responses \cup {Found(<<Deg(-93, 20)>>), Found(<<Deg(-93, 20), None>>), Http(404)}

\* the longest workbook explored
MaxKingpinRows == 2

ZeroKingpinCounts ==
    [skipped_existing |-> 0, geocoded_new |-> 0, failed_or_missing |-> 0,
     dropped_no_address_no_phone |-> 0, area_code_assigned |-> 0, cache_hits |-> 0,
     cache_writes |-> 0]

\* main is entered, on every workbook, token, lookup and cache file explored
KingpinInit ==
    /\ NoRun
    /\ fn_call = NoCall
    /\ fn_ret = NoCall
    /\ ScriptsIdleExcept({"geocode_kingpin"})
    /\ kingpin_run \in
         {[pc |-> "start", input_exists |-> input_exists, token |-> token,
           area_lookup |-> area_lookup, df |-> df, idx |-> 0, entries |-> entries,
           counts |-> ZeroKingpinCounts, saw_http_401 |-> FALSE, first_request_done |-> FALSE,
           requests |-> <<>>, cache_file |-> entries, df_out |-> <<>>, written |-> FALSE,
           summary |-> <<>>] :
              input_exists \in BOOLEAN,
              token \in BOOLEAN,
              area_lookup \in AreaLookups,
              df \in UNION {[1..n -> KingpinRows] : n \in 0..MaxKingpinRows},
              entries \in KingpinCaches}

\* main up to the loop: without the workbook it returns 1
KingpinStart ==
    /\ kingpin_run.pc = "start"
    /\ kingpin_run' = [kingpin_run EXCEPT !.pc = IF kingpin_run.input_exists THEN "loop" ELSE "failed"]
    /\ UNCHANGED <<run_vars, fn_call, fn_ret, kingpin1_run, retailers_run, combine_run, geojson_run>>

\* the area code of the row
KingpinAreaCode(row) ==
    geocode_kingpin_extract_area_code(StrOfCell(row.OFFICE_PHONE), StrOfCell(row.CELL_PHONE))

\* the row cleared by a branch that gives up before the query
KingpinGiveUp(row, ac, status, method) ==
    [row EXCEPT !.AREA_CODE = ac, !.GEOCODE_STATUS = status, !.GEOCODE_QUERY = <<>>,
                !.LAT = BlankCell, !.LON = BlankCell, !.GEO_ASSIGNMENT_METHOD = method]

\* the row with the city center of its area code as address
KingpinCityCenter(row, ac, center) ==
    [row EXCEPT !.AREA_CODE = ac,
                !.ADDRESS = Txt(<<"C","i","t","y"," ","C","e","n","t","e","r">>),
                !.CITY = Txt(center.city),
                !.STATE_1 = Txt(center.state),
                !.ZIP_CODE = Txt(center.zip),
                !.FULL_BLOCK_ADDRESS =
                    Txt(build_city_center_query(center.city, center.state, center.zip))]

\* the loop body up to the query: the row is skipped, dropped, without
\* lookup, or goes on to the query, with a city center or as it is
KingpinPrepare(row, area_lookup) ==
    IF is_valid_coord(row.LAT, row.LON) THEN [kind |-> "skipped", row |-> row, assigned |-> FALSE]
    ELSE IF has_any_address_fields(row) THEN [kind |-> "query", row |-> row, assigned |-> FALSE]
    ELSE IF KingpinAreaCode(row) = <<>>
    THEN [kind |-> "dropped", assigned |-> FALSE,
          row |-> KingpinGiveUp(row, <<>>, "dropped_no_address_no_phone", "dropped")]
    ELSE IF KingpinAreaCode(row) \notin DOMAIN area_lookup
    THEN [kind |-> "missing_lookup", assigned |-> FALSE,
          row |-> KingpinGiveUp(row, KingpinAreaCode(row), "missing_area_code_lookup",
                                "area_code_missing_lookup")]
    ELSE [kind |-> "query", assigned |-> TRUE,
          row |-> KingpinCityCenter(row, KingpinAreaCode(row), area_lookup[KingpinAreaCode(row)])]

\* the row prepared, with its query and its assignment method
KingpinQueried(prep) ==
    [prep.row EXCEPT !.GEOCODE_QUERY = geocode_kingpin_build_query(prep.row),
                     !.GEO_ASSIGNMENT_METHOD =
                         IF prep.assigned THEN "area_code_city_center" ELSE "address"]

\* the loop saw nothing of the HTTP 401
mutant_Is401(got) == FALSE

\* "http_status == 401" of the failing request
Is401(got) == got.http_status = 401

\* a row that had a city center assigned is not counted under its outcome
mutant_KingpinCount(counts, outcome, writes, assigned) ==
    [counts EXCEPT ![outcome] = @ + 1 - assigned,
                   !.cache_writes = @ + writes,
                   !.area_code_assigned = @ + assigned]

\* the counters after a row: one more of its outcome, the cache writes, and
\* one more city center if one was assigned to the row
KingpinCount(counts, outcome, writes, assigned) ==
    [[counts EXCEPT ![outcome] = @ + 1] EXCEPT !.cache_writes = @ + writes,
                                               !.area_code_assigned = @ + assigned]

\* the iteration for the row at idx + 1 sends a request
KingpinCalls(run) ==
    \E prep \in {KingpinPrepare(run.df[run.idx + 1], run.area_lookup)} :
        /\ prep.kind = "query"
        /\ geocode_kingpin_build_query(prep.row) # <<>>
        /\ run.token
        /\ ~run.saw_http_401
        /\ geocode_kingpin_cache_key(geocode_kingpin_build_query(prep.row)) \notin DOMAIN run.entries

\* the body of "for i in range(rows_total)" for the row at idx + 1, resp
\* being the answer to its request if it sends one
KingpinIteration(run, resp) ==
    CHOOSE r \in
      { IF prep.kind = "skipped"
        THEN [run EXCEPT !.idx = i, !.counts = KingpinCount(@, "skipped_existing", 0, 0)]
        ELSE IF prep.kind = "dropped"
        THEN [run EXCEPT !.idx = i, !.df[i] = prep.row,
                         !.counts = KingpinCount(@, "dropped_no_address_no_phone", 0, 0)]
        ELSE IF prep.kind = "missing_lookup"
        THEN [run EXCEPT !.idx = i, !.df[i] = prep.row,
                         !.counts = KingpinCount(@, "failed_or_missing", 0, 0)]
        ELSE IF row.GEOCODE_QUERY = <<>>
        THEN [run EXCEPT !.idx = i,
                         !.df[i] = [row EXCEPT !.GEOCODE_STATUS = "missing_query"],
                         !.counts = KingpinCount(@, "failed_or_missing", 0, assigned)]
        ELSE IF ~run.token
        THEN [run EXCEPT !.idx = i,
                         !.df[i] = [row EXCEPT !.GEOCODE_STATUS = "no_token"],
                         !.counts = KingpinCount(@, "failed_or_missing", 0, assigned)]
        ELSE IF run.saw_http_401
        THEN [run EXCEPT !.idx = i,
                         !.df[i] = [row EXCEPT !.GEOCODE_STATUS = "http_401"],
                         !.counts = KingpinCount(@, "failed_or_missing", 0, assigned)]
        ELSE IF ck \in DOMAIN run.entries
        THEN [run EXCEPT !.idx = i,
                         !.df[i] = [row EXCEPT !.GEOCODE_STATUS = run.entries[ck].status,
                                               !.LAT = run.entries[ck].lat,
                                               !.LON = run.entries[ck].lon],
                         !.counts = KingpinCount(@, "cache_hits", 0, assigned)]
        ELSE IF got.status = "ok" /\ got.lat # None /\ got.lon # None
        THEN [run EXCEPT !.idx = i,
                         !.first_request_done = TRUE,
                         !.requests = Append(@, [row |-> i, query |-> row.GEOCODE_QUERY,
                                                 http_status |-> got.http_status]),
                         !.df[i] = [row EXCEPT !.GEOCODE_STATUS = got.status,
                                               !.LAT = got.lat, !.LON = got.lon],
                         !.entries = [q \in DOMAIN @ \cup {ck} |->
                                        IF q = ck THEN KingpinEntry(got.status, got.lat, got.lon)
                                        ELSE @[q]],
                         !.counts = KingpinCount(@, "geocoded_new", 1, assigned)]
        ELSE IF Is401(got)
        THEN [run EXCEPT !.idx = i,
                         !.first_request_done = TRUE,
                         !.saw_http_401 = TRUE,
                         !.requests = Append(@, [row |-> i, query |-> row.GEOCODE_QUERY,
                                                 http_status |-> got.http_status]),
                         !.df[i] = [row EXCEPT !.GEOCODE_STATUS = got.status],
                         !.counts = KingpinCount(@, "failed_or_missing", 0, assigned)]
        ELSE [run EXCEPT !.idx = i,
                         !.first_request_done = TRUE,
                         !.requests = Append(@, [row |-> i, query |-> row.GEOCODE_QUERY,
                                                 http_status |-> got.http_status]),
                         !.df[i] = [row EXCEPT !.GEOCODE_STATUS = got.status],
                         !.entries = [q \in DOMAIN @ \cup {ck} |->
                                        IF q = ck THEN KingpinEntry(got.status, BlankCell, BlankCell)
                                        ELSE @[q]],
                         !.counts = KingpinCount(@, "failed_or_missing", 1, assigned)] :
          i \in {run.idx + 1},
          prep \in {KingpinPrepare(run.df[run.idx + 1], run.area_lookup)},
          row \in {KingpinQueried(KingpinPrepare(run.df[run.idx + 1], run.area_lookup))},
          assigned \in {IF KingpinPrepare(run.df[run.idx + 1], run.area_lookup).assigned
                        THEN 1 ELSE 0},
          ck \in {geocode_kingpin_cache_key(
                     KingpinQueried(KingpinPrepare(run.df[run.idx + 1],
                                                   run.area_lookup)).GEOCODE_QUERY)},
          got \in {mapbox_geocode(resp)} } : TRUE

\* one iteration of "for i in range(rows_total)"
KingpinStep ==
    /\ kingpin_run.pc = "loop"
    /\ kingpin_run.idx < Len(kingpin_run.df)
    /\ \E resp \in (IF KingpinCalls(kingpin_run) THEN KingpinResponses ELSE {Timeout}) :
          kingpin_run' = KingpinIteration(kingpin_run, resp)
    /\ UNCHANGED <<run_vars, fn_call, fn_ret, kingpin1_run, retailers_run, combine_run, geojson_run>>

\* after the loop: the cache file, the CSV and the workbook, the summary
KingpinFinish ==
    /\ kingpin_run.pc = "loop"
    /\ kingpin_run.idx = Len(kingpin_run.df)
    /\ kingpin_run' =
          [kingpin_run EXCEPT
             !.pc = "done",
             !.cache_file = kingpin_run.entries,
             !.df_out = kingpin_run.df,
             !.written = TRUE,
             !.summary = [rows_total |-> Len(kingpin_run.df)] @@ kingpin_run.counts]
    /\ UNCHANGED <<run_vars, fn_call, fn_ret, kingpin1_run, retailers_run, combine_run, geojson_run>>

KingpinNext == KingpinStart \/ KingpinStep \/ KingpinFinish

SpecKingpin == KingpinInit /\ [][KingpinNext]_vars

\* a run of one of the two scripts that keep data/geocode-cache.json:
\* convert_to_geojson_kingpin or geocode_kingpin
CachesInit == Init \/ KingpinInit

CachesNext == Next \/ KingpinNext

SpecCaches == CachesInit /\ [][CachesNext]_vars

\* C19 as stated: while the rows are processed no entry of the cache is removed
\* or overwritten, in convert_to_geojson_kingpin and in geocode_kingpin.
C19_StatedAppendOnly ==
    [][/\ pc = "loop" =>
            \A q \in DOMAIN cache : q \in DOMAIN cache' /\ cache'[q] = cache[q]
       /\ kingpin_run.pc = "loop" =>
            \A q \in DOMAIN kingpin_run.entries :
                /\ q \in DOMAIN kingpin_run'.entries
                /\ kingpin_run'.entries[q] = kingpin_run.entries[q]]_vars

\* the cache of geocode_kingpin is append-only: while the rows are processed
\* every entry stays as it is, and the cache changes only by one key that was
\* absent, added after a request was sent for the row; until the end the
\* cache holds every entry of the cache file, and the file written at the end
\* is the cache, with every entry of the file read at the start
KingpinAppendOnly ==
    /\ [][kingpin_run.pc = "loop" =>
            /\ \A q \in DOMAIN kingpin_run.entries :
                  /\ q \in DOMAIN kingpin_run'.entries
                  /\ kingpin_run'.entries[q] = kingpin_run.entries[q]
            /\ kingpin_run'.entries # kingpin_run.entries =>
                  /\ Cardinality(DOMAIN kingpin_run'.entries) =
                        Cardinality(DOMAIN kingpin_run.entries) + 1
                  /\ Len(kingpin_run'.requests) = Len(kingpin_run.requests) + 1
                  /\ kingpin_run'.counts.cache_writes = kingpin_run.counts.cache_writes + 1
            /\ kingpin_run'.pc = "done" =>
                  /\ kingpin_run'.cache_file = kingpin_run.entries
                  /\ \A q \in DOMAIN kingpin_run.cache_file :
                        /\ q \in DOMAIN kingpin_run'.cache_file
                        /\ kingpin_run'.cache_file[q] = kingpin_run.cache_file[q]]_vars
    /\ [](kingpin_run.pc \in {"start", "loop"} =>
            \A q \in DOMAIN kingpin_run.cache_file :
                /\ q \in DOMAIN kingpin_run.entries
                /\ kingpin_run.entries[q] = kingpin_run.cache_file[q])

\* C19 as the code has it. In geocode_kingpin the cache is append-only as
\* stated. In convert_to_geojson_kingpin, while the rows are processed no key
\* leaves the cache and an entry that is a coordinate pair in bounds never
\* changes; the cache changes only when a remote call succeeds, and then only
\* under the query of that call, which was absent or held something other than
\* a coordinate pair in bounds, and now holds the coordinate the call
\* returned. The file written at the end keeps every key and every usable
\* entry of the file read at the start.
C19_UsableEntriesKept ==
    /\ [][pc = "loop" =>
            /\ \A q \in DOMAIN cache :
                  /\ q \in DOMAIN cache'
                  /\ HoldsValidEntry(cache, q) => cache'[q] = cache[q]
            /\ \A q \in DOMAIN cache' :
                  (q \notin DOMAIN cache \/ cache'[q] # cache[q]) =>
                      /\ last'.called /\ last'.geocoded
                      /\ q = last'.ck_full
                      /\ cache'[q] = last'.lonlat
                      /\ ~HoldsValidEntry(cache, q)]_vars
    /\ [](pc = "done" =>
            \A q \in DOMAIN disk_cache :
                /\ q \in DOMAIN out.cache_file
                /\ OnDisk(q) => out.cache_file[q] = disk_cache[q])
    /\ KingpinAppendOnly

\* a run of convert_to_geojson_kingpin that read a usable entry, added a second
\* key after a successful call and wrote both
C19_Witness ==
    /\ pc = "done"
    /\ \E q \in DOMAIN disk_cache : OnDisk(q) /\ out.cache_file[q] = disk_cache[q]
    /\ LastKept
    /\ last.geocoded
    /\ last.ck_full \notin DOMAIN disk_cache
    /\ out.cache_file[last.ck_full] = last.lonlat

\* a run of geocode_kingpin that read the entry of the full block address,
\* added a second key after a request and wrote both
C19_KingpinWitness ==
    /\ kingpin_run.pc = "done"
    /\ kingpin_run.counts.cache_writes > 0
    /\ geocode_kingpin_cache_key(KingpinMainQuery) \in DOMAIN kingpin_run.cache_file
    /\ kingpin_run.cache_file[geocode_kingpin_cache_key(KingpinMainQuery)] =
          KingpinEntry("ok", Deg(41, 70), Deg(-93, 30))
    /\ Cardinality(DOMAIN kingpin_run.cache_file) = 2

(***************************************************************************)
(* Properties of geocode_kingpin                                           *)
(***************************************************************************)
\* the positions in requests of the requests that returned HTTP 401
Requests401 == {n \in 1..Len(kingpin_run.requests) : kingpin_run.requests[n].http_status = 401}

\* the row at position i of the output went as far as the geocoding: a
\* query was built for it
NeedsGeocoding(i) == kingpin_run.df_out[i].GEOCODE_QUERY # <<>>

\* C27: in geocode_kingpin, once a request has returned HTTP 401 no request
\* is sent for a later row of the run, every later row that still needs
\* geocoding gets the status http_401, and the 401 result is not written to
\* the cache.
C27_StopAfter401 ==
    \A n \in Requests401 :
        /\ n = Len(kingpin_run.requests)
        /\ geocode_kingpin_cache_key(kingpin_run.requests[n].query) \notin DOMAIN kingpin_run.entries
        /\ geocode_kingpin_cache_key(kingpin_run.requests[n].query) \notin DOMAIN kingpin_run.cache_file
        /\ kingpin_run.pc = "done" =>
              /\ kingpin_run.cache_file = kingpin_run.entries
              /\ \A i \in (kingpin_run.requests[n].row + 1)..Len(kingpin_run.df_out) :
                    NeedsGeocoding(i) => kingpin_run.df_out[i].GEOCODE_STATUS = "http_401"

\* a run ended in which the first row got HTTP 401 and the second row, the
\* same address, was given http_401 without a request
C27_Witness ==
    /\ kingpin_run.pc = "done"
    /\ Len(kingpin_run.df_out) = 2
    /\ Len(kingpin_run.requests) = 1
    /\ kingpin_run.requests[1].row = 1
    /\ kingpin_run.requests[1].http_status = 401
    /\ kingpin_run.df_out[2].GEOCODE_STATUS = "http_401"
    /\ kingpin_run.df_out[2].GEOCODE_QUERY # <<>>

\* C28: at the end of a run of geocode_kingpin rows_total is
\* skipped_existing_valid_latlon + dropped_no_address_no_phone +
\* failed_or_missing + cache_hits + geocoded_new: every row is counted in
\* exactly one of these outcomes (during the loop the sum is the number of
\* rows done).
C28_RowsAccounted ==
    /\ kingpin_run.pc \in {"loop", "done"} =>
          kingpin_run.idx = kingpin_run.counts.skipped_existing
                            + kingpin_run.counts.dropped_no_address_no_phone
                            + kingpin_run.counts.failed_or_missing
                            + kingpin_run.counts.cache_hits
                            + kingpin_run.counts.geocoded_new
    /\ kingpin_run.pc = "done" =>
          /\ kingpin_run.summary.rows_total = Len(kingpin_run.df)
          /\ kingpin_run.summary.rows_total =
                kingpin_run.summary.skipped_existing
                + kingpin_run.summary.dropped_no_address_no_phone
                + kingpin_run.summary.failed_or_missing
                + kingpin_run.summary.cache_hits
                + kingpin_run.summary.geocoded_new

\* a run of two rows ended: one had a city center assigned and was geocoded,
\* the other was answered by the cache
C28_Witness ==
    /\ kingpin_run.pc = "done"
    /\ kingpin_run.summary.rows_total = 2
    /\ kingpin_run.summary.area_code_assigned = 1
    /\ kingpin_run.summary.geocoded_new = 1
    /\ kingpin_run.summary.cache_hits = 1

(***************************************************************************)
(* Properties of the counters of convert_to_geojson_kingpin                *)
(***************************************************************************)
\* the coordinate-source histogram of the counters s: authoritative table,
\* facility, geocoder, cache, area-code city center
CoordinateSources(s) ==
    s.n_coords_from_latlong + s.n_coords_from_facility + s.n_geocoded + s.cache_hits
    + s.n_area_code_assigned

\* C29: in convert_to_geojson_kingpin.main the coordinate-source histogram
\* accounts for every coordinate: coords_from_kingpin_latlong +
\* coords_from_facility_fallback + tbd_geocoded + cache_hits +
\* area_code_assigned_city_centers is the number of resolved rows plus
\* dropped_invalid_coords_final, after any sequence of rows and in the stats
\* written.
C29_HistogramAccounts ==
    /\ pc \in {"loop", "done"} =>
          CoordinateSources(st) = Len(enriched) + st.n_dropped_invalid_coords_final
    /\ out.written =>
          CoordinateSources(out.stats)
             = Len(out.enriched_csv) + out.stats.n_dropped_invalid_coords_final

\* a finished run of two rows whose coordinates came from two different
\* sources, the cache being one of them
C29_Witness ==
    /\ out.written
    /\ Len(out.enriched_csv) + out.stats.n_dropped_invalid_coords_final = 2
    /\ out.stats.cache_hits = 1
    /\ out.stats.n_geocoded + out.stats.n_coords_from_facility
         + out.stats.n_area_code_assigned + out.stats.n_coords_from_latlong = 1

(***************************************************************************)
(* convert_to_geojson.py: the geocode cache and geocode_address.  The cache *)
(* is a table of rows (query, lat, lon); lat and lon are floats written as  *)
(* text, blank, or text float() rejects.                                    *)
(***************************************************************************)
\* one row of geocode_cache.csv
CacheRow(query, lat, lon) == [query |-> query, lat |-> lat, lon |-> lon]

\* cache_df.loc[cache_df["query"] == query]
RECURSIVE CacheRowsOf(_, _)
CacheRowsOf(rows, query) ==
    IF rows = <<>> THEN <<>>
    ELSE IF Head(rows).query = query THEN <<Head(rows)>> \o CacheRowsOf(Tail(rows), query)
    ELSE CacheRowsOf(Tail(rows), query)

\* no cached row is ever found
mutant_lookup_cache(rows, query) == [kind |-> "none"]

\* lookup_cache(query): (lat, lon) when exactly one row holds the query,
\* else None; float() of a blank or malformed cell raises
lookup_cache(rows, query) ==
    IF Len(CacheRowsOf(rows, query)) # 1 THEN [kind |-> "none"]
    ELSE IF ~Floatable(CacheRowsOf(rows, query)[1].lat) THEN [kind |-> "raise"]
    ELSE IF ~Floatable(CacheRowsOf(rows, query)[1].lon) THEN [kind |-> "raise"]
    ELSE [kind |-> "found", lat |-> CacheRowsOf(rows, query)[1].lat,
          lon |-> CacheRowsOf(rows, query)[1].lon]

\* update_cache(query, lat, lon): one more row, and the file is rewritten
update_cache(rows, query, lat, lon) == Append(rows, CacheRow(query, lat, lon))

\* one attempt of geocode_address on the response resp: the coordinate, or
\* a failure with or without the sleep of the except branch
GeocodeAttempt(resp) ==
    IF resp.kind = "raise" THEN [kind |-> "except"]
    ELSE IF resp.status # 200 THEN [kind |-> "next"]
    ELSE IF ~resp.json THEN [kind |-> "except"]
    ELSE IF resp.centers = <<>> THEN [kind |-> "next"]
    ELSE IF Len(resp.centers[1]) # 2 THEN [kind |-> "except"]
    ELSE [kind |-> "found", lat |-> resp.centers[1][2], lon |-> resp.centers[1][1]]

\* the number of attempts of geocode_address
MaxAttempts == 3

\* the loop "for attempt in range(3)" from attempt n on, resps being the
\* answers to the three requests
RECURSIVE GeocodeAttempts(_, _, _, _, _)
GeocodeAttempts(rows, addr, resps, n, slept) ==
    IF n > MaxAttempts
    THEN [kind |-> "none", rows |-> rows, requests |-> MaxAttempts, slept |-> slept]
    ELSE IF GeocodeAttempt(resps[n]).kind = "found"
    THEN [kind |-> "found", lat |-> GeocodeAttempt(resps[n]).lat,
          lon |-> GeocodeAttempt(resps[n]).lon,
          rows |-> update_cache(rows, addr, GeocodeAttempt(resps[n]).lat,
                                GeocodeAttempt(resps[n]).lon),
          requests |-> n, slept |-> slept]
    ELSE GeocodeAttempts(rows, addr, resps, n + 1,
                         slept + (IF GeocodeAttempt(resps[n]).kind = "except" THEN 1 ELSE 0))

\* geocode_address(addr) on the cache rows
geocode_address(rows, addr, resps) ==
    IF lookup_cache(rows, addr).kind = "raise"
    THEN [kind |-> "raise", rows |-> rows, requests |-> 0, slept |-> 0]
    ELSE IF lookup_cache(rows, addr).kind = "found"
    THEN [kind |-> "found", lat |-> lookup_cache(rows, addr).lat,
          lon |-> lookup_cache(rows, addr).lon, rows |-> rows, requests |-> 0, slept |-> 0]
    ELSE GeocodeAttempts(rows, addr, resps, 1, 0)

\* queries of the KINGPIN1 rows explored
GeocodeQueries == { <<"1","2"," ","M","a","i","n"," ","S","t",","," ","A","m","e","s",","," ","I","A"," ","5","0","0","1","0">>, <<"3"," ","O","a","k"," ","A","v","e",","," ","A","m","e","s",","," ","I","A"," ","5","0","0","1","4">>, <<","," ","B","o","o","n","e",","," ","I","A">> }

\* contents of geocode_cache.csv when the script starts: no file, one row,
\* two queries, a row with a blank latitude, and a query held twice
GeocodeCacheFiles ==
    { <<>>,
      <<CacheRow(<<"1","2"," ","M","a","i","n"," ","S","t",","," ","A","m","e","s",","," ","I","A"," ","5","0","0","1","0">>, Deg(41, 70), Deg(-93, 30))>>,
      <<CacheRow(<<"1","2"," ","M","a","i","n"," ","S","t",","," ","A","m","e","s",","," ","I","A"," ","5","0","0","1","0">>, Deg(41, 70), Deg(-93, 30)), CacheRow(<<"3"," ","O","a","k"," ","A","v","e",","," ","A","m","e","s",","," ","I","A"," ","5","0","0","1","4">>, Deg(42, 3), Deg(-93, 61))>>,
      <<CacheRow(<<"3"," ","O","a","k"," ","A","v","e",","," ","A","m","e","s",","," ","I","A"," ","5","0","0","1","4">>, BlankCell, Deg(-93, 61))>>,
      <<CacheRow(<<"1","2"," ","M","a","i","n"," ","S","t",","," ","A","m","e","s",","," ","I","A"," ","5","0","0","1","0">>, Deg(41, 70), Deg(-93, 30)), CacheRow(<<"1","2"," ","M","a","i","n"," ","S","t",","," ","A","m","e","s",","," ","I","A"," ","5","0","0","1","0">>, Deg(41, 70), Deg(-93, 30))>> }

\* the largest number of geocode_address calls explored
MaxGeocodeCalls == 3

\* what the service may answer to convert_to_geojson: a coordinate, no
\* feature, an HTTP error, a body that is not JSON, no answer, and a
\* center that is not a pair
GeocodeResponses ==
    { Found(<<Deg(-93, 20), Deg(41, 80)>>), Http(200), Http(500), Malformed, Timeout,
      Found(<<Deg(-93, 20)>>) }

\* the script when the KINGPIN1 loop starts, on every cache file explored
GeojsonInit ==
    /\ NoRun
    /\ fn_call = NoCall
    /\ fn_ret = NoCall
    /\ ScriptsIdleExcept({"convert_to_geojson"})
    /\ geojson_run \in
         {[pc |-> "loop", cache_start |-> rows, cache_df |-> rows, cache_file |-> rows,
           calls |-> 0, requests |-> 0, kp1_count |-> 0, kp1_invalid |-> 0,
           last_call |-> [kind |-> "nocall"]] :
              rows \in GeocodeCacheFiles}

\* build_kp1 for one more KINGPIN1 row: geocode_address on its query; an
\* exception of lookup_cache ends the script
GeocodeAddressCall ==
    /\ geojson_run.pc = "loop"
    /\ geojson_run.calls < MaxGeocodeCalls
    /\ \E addr \in GeocodeQueries :
       \E resps \in [1..MaxAttempts -> GeocodeResponses] :
       \E got \in {geocode_address(geojson_run.cache_df, addr, resps)} :
          geojson_run' =
             [geojson_run EXCEPT
                !.pc = IF got.kind = "raise" THEN "raised" ELSE "loop",
                !.calls = @ + 1,
                !.requests = @ + got.requests,
                !.cache_df = got.rows,
                !.cache_file = IF got.rows # geojson_run.cache_df THEN got.rows ELSE @,
                !.kp1_count = @ + (IF got.kind = "found" THEN 1 ELSE 0),
                !.kp1_invalid = @ + (IF got.kind = "none" THEN 1 ELSE 0),
                !.last_call = [kind |-> got.kind, addr |-> addr,
                               cached |-> Len(CacheRowsOf(geojson_run.cache_df, addr)),
                               requests |-> got.requests, slept |-> got.slept,
                               rows_added |-> Len(got.rows) - Len(geojson_run.cache_df)]]
    /\ UNCHANGED <<run_vars, fn_call, fn_ret, kingpin1_run, retailers_run, combine_run, kingpin_run>>

\* after the loop: the feature collection and the summary
GeojsonExport ==
    /\ geojson_run.pc = "loop"
    /\ geojson_run' = [geojson_run EXCEPT !.pc = "done"]
    /\ UNCHANGED <<run_vars, fn_call, fn_ret, kingpin1_run, retailers_run, combine_run, kingpin_run>>

GeojsonNext == GeocodeAddressCall \/ GeojsonExport

SpecGeojson == GeojsonInit /\ [][GeojsonNext]_vars

(***************************************************************************)
(* Properties of the cache of convert_to_geojson                           *)
(***************************************************************************)
\* every query of the table is in one row only
AtMostOnce(rows) == \A i, j \in 1..Len(rows) : rows[i].query = rows[j].query => i = j

\* C30: in convert_to_geojson, if every query is held at most once by the
\* geocode cache when the run starts, it is held at most once after any
\* sequence of geocode_address calls: a cached query is answered without a
\* request and without a new row, and an uncached query adds at most one row
\* however many of its up to three attempts are made.
C30_CacheRowsUnique ==
    AtMostOnce(geojson_run.cache_start) =>
        /\ AtMostOnce(geojson_run.cache_df)
        /\ AtMostOnce(geojson_run.cache_file)
        /\ geojson_run.last_call.kind # "nocall" =>
              /\ geojson_run.last_call.cached = 1 =>
                    /\ geojson_run.last_call.requests = 0
                    /\ geojson_run.last_call.rows_added = 0
              /\ geojson_run.last_call.cached = 0 =>
                    /\ geojson_run.last_call.requests \in 1..MaxAttempts
                    /\ geojson_run.last_call.rows_added \in {0, 1}
                    /\ geojson_run.last_call.rows_added = 1 <=>
                          geojson_run.last_call.kind = "found"

\* a query that the cache did not hold was geocoded at its third attempt,
\* which added one row, and the next call for it was answered by the cache
C30_Witness ==
    /\ AtMostOnce(geojson_run.cache_start)
    /\ geojson_run.calls = 2
    /\ geojson_run.requests = MaxAttempts
    /\ Len(geojson_run.cache_df) = Len(geojson_run.cache_start) + 1
    /\ geojson_run.last_call.kind = "found"
    /\ geojson_run.last_call.cached = 1
    /\ geojson_run.last_call.requests = 0

====
